---- MODULE Spec2Model ----
(***************************************************************************)
(* A model of the segmented tensor (src/core/SegmentedTensor.h) and of the *)
(* round orchestrator GenerateTermUpdate                                   *)
(* (src/shared/libebm/GenerateTermUpdate.cpp).                             *)
(*                                                                         *)
(* Arrays are sequences; a C pointer into an array is its zero-based       *)
(* offset, so that *p is At(array, p) and p[-1] is At(array, p - 1).       *)
(* A buffer is as long as its capacity.  Slots that malloc/realloc hand    *)
(* out without initialising hold Uninit, which every arithmetic step       *)
(* propagates.  size_t is narrowed to SIZE_MAX so that the overflow guards *)
(* are exercised by small tensors.                                         *)
(***************************************************************************)
EXTENDS Integers, Sequences, FiniteSets, TLC

\* The tensor under test and the record of the last operation applied to it:
\* its name, its arguments, its operand, whether it reported failure, whether an
\* allocation inside it returned nullptr, and the tensor as it was before the call.
VARIABLES tensor, rhs, op, args, err, oomed, pre, nOps

\* The booster: its core (terms, score count, training set), its shell (the
\* current term index and the two update tensors), the record of the last
\* GenerateTermUpdate call, and the number of calls made.
VARIABLES core, shell, call, nCalls

tensorVars == <<tensor, rhs, op, args, err, oomed, pre, nOps>>

boostVars == <<core, shell, call, nCalls>>

vars == <<tensor, rhs, op, args, err, oomed, pre, nOps, core, shell, call, nCalls>>

(***************************************************************************)
(* Bounds of the model.                                                    *)
(***************************************************************************)
\* cDimensionsMax handed to Allocate
MaxDims == 2
\* largest score vector length handed to Allocate in ordinary use
MaxVectorLength == 2
\* bins per axis of the coordinate space the callers work in
MaxBins == 3
\* operations applied to the tensor after construction
MaxOps == 3
\* bins per axis of the wider coordinate space of the single-operation checks
WideBins == 7
\* divisions of a tensor written in the wider coordinate space
MaxDivisions == 2
\* calls of GenerateTermUpdate on one booster
MaxCalls == 2
\* dimensions of the update tensors of a booster shell
MaxTermDims == 3

(***************************************************************************)
(* Machine constants.                                                      *)
(***************************************************************************)
SIZE_MAX == 127
sizeofTValues == 8
sizeofTDivisions == 8
k_initialDivisionCapacity == 1
k_initialValueCapacity == 2
Uninit == 0 - 1
\* a TValues or gain that is NaN or infinite
NonFinite == 0 - 2
\* a TValues that is NaN: it compares unequal to every TValues, itself included
NaN == 0 - 5
\* std::numeric_limits<double>::max(), narrowed like SIZE_MAX
DoubleMax == 3

IsMultiplyError(a, b) == a * b > SIZE_MAX

IsAddError(a, b) == a + b > SIZE_MAX

(***************************************************************************)
(* Array helpers (zero-based, as in the source).                           *)
(***************************************************************************)
At(a, i) == a[i + 1]

Put(a, i, v) == [a EXCEPT ![i + 1] = v]

\* realloc: the old contents are kept, the new slots are not initialised
Realloc(a, cNew) == [j \in 1..cNew |-> IF j <= Len(a) THEN a[j] ELSE Uninit]

\* TValues addition and multiplication; an uninitialised operand poisons the result
Plus(a, b) ==
  IF a = Uninit \/ b = Uninit THEN Uninit
  ELSE IF a = NaN \/ b = NaN THEN NaN
  ELSE IF a = NonFinite \/ b = NonFinite THEN NonFinite
  ELSE a + b

Times(a, v) ==
  IF a = Uninit THEN Uninit
  ELSE IF a = NaN \/ v = NaN THEN NaN
  ELSE IF a = NonFinite \/ v = NonFinite THEN NonFinite
  ELSE a * v

Dim(t, iDimension) == t.m_aDimensions[iDimension + 1]

SetDim(t, iDimension, d) == [t EXCEPT !.m_aDimensions[iDimension + 1] = d]

\* the result of an operation that returns bool (true is failure); oom counts down
\* to the allocation call that returns nullptr (0: none does)
Res(e, t, oom) == [err |-> e, t |-> t, oom |-> oom]

(***************************************************************************)
(* Allocate.  A nullptr result is the tensor with vector length 0.         *)
(***************************************************************************)
Nullptr ==
  [m_cValueCapacity |-> 0, m_cVectorLength |-> 0, m_cDimensionsMax |-> 0,
   m_cDimensions |-> 0, m_aValues |-> <<>>, m_bExpanded |-> FALSE,
   m_aDimensions |-> <<>>]

Allocate(cDimensionsMax, cVectorLength) ==
  IF IsMultiplyError(cVectorLength, k_initialValueCapacity) THEN Nullptr
  ELSE LET cValueCapacity == cVectorLength * k_initialValueCapacity IN
    IF IsMultiplyError(sizeofTValues, cValueCapacity) THEN Nullptr
    ELSE
      [m_cValueCapacity |-> cValueCapacity,
       m_cVectorLength |-> cVectorLength,
       m_cDimensionsMax |-> cDimensionsMax,
       m_cDimensions |-> cDimensionsMax,
       m_aValues |-> [j \in 1..cValueCapacity |-> IF j <= cVectorLength THEN 0 ELSE Uninit],
       m_bExpanded |-> FALSE,
       m_aDimensions |->
         [i \in 1..cDimensionsMax |->
            [m_cDivisions |-> 0,
             m_aDivisions |-> [j \in 1..k_initialDivisionCapacity |-> Uninit],
             m_cDivisionCapacity |-> k_initialDivisionCapacity]]]

SetCountDimensions(t, cDimensions) == [t EXCEPT !.m_cDimensions = cDimensions]

\* seeded fault: the scores are zeroed but the division counts are kept
ResetValuesOnly(t) ==
  [t EXCEPT
     !.m_aValues = [j \in 1..Len(t.m_aValues) |-> IF j <= t.m_cVectorLength THEN 0 ELSE t.m_aValues[j]],
     !.m_bExpanded = FALSE]

Reset(t) ==
  [t EXCEPT
     !.m_aDimensions =
        [i \in 1..t.m_cDimensionsMax |->
           IF i <= t.m_cDimensions
             THEN [t.m_aDimensions[i] EXCEPT !.m_cDivisions = 0]
             ELSE t.m_aDimensions[i]],
     !.m_aValues = [j \in 1..Len(t.m_aValues) |-> IF j <= t.m_cVectorLength THEN 0 ELSE t.m_aValues[j]],
     !.m_bExpanded = FALSE]

\* seeded fault: m_cDivisions is recorded before the capacity is grown
SetCountDivisionsRecordFirst(t, iDimension, cDivisions, oom) ==
  LET pDimension == Dim(t, iDimension)
      recorded == SetDim(t, iDimension, [pDimension EXCEPT !.m_cDivisions = cDivisions])
  IN
  IF pDimension.m_cDivisionCapacity < cDivisions THEN
    IF IsAddError(cDivisions, cDivisions \div 2) THEN Res(TRUE, recorded, oom)
    ELSE LET cNewDivisionCapacity == cDivisions + (cDivisions \div 2) IN
      IF IsMultiplyError(sizeofTDivisions, cNewDivisionCapacity) THEN Res(TRUE, recorded, oom)
      ELSE IF oom = 1 THEN Res(TRUE, recorded, 0)
      ELSE Res(FALSE,
               SetDim(t, iDimension,
                      [m_cDivisions |-> cDivisions,
                       m_aDivisions |-> Realloc(pDimension.m_aDivisions, cNewDivisionCapacity),
                       m_cDivisionCapacity |-> cNewDivisionCapacity]),
               IF oom = 0 THEN 0 ELSE oom - 1)
  ELSE Res(FALSE, recorded, oom)

\* seeded fault: the capacity grows to cDivisions and the old entries are dropped
SetCountDivisionsFreshBuffer(t, iDimension, cDivisions, oom) ==
  LET pDimension == Dim(t, iDimension) IN
  IF pDimension.m_cDivisionCapacity < cDivisions THEN
    IF IsAddError(cDivisions, cDivisions \div 2) THEN Res(TRUE, t, oom)
    ELSE LET cNewDivisionCapacity == cDivisions + (cDivisions \div 2) IN
      IF IsMultiplyError(sizeofTDivisions, cNewDivisionCapacity) THEN Res(TRUE, t, oom)
      ELSE IF oom = 1 THEN Res(TRUE, t, 0)
      ELSE Res(FALSE,
               SetDim(t, iDimension,
                      [m_cDivisions |-> cDivisions,
                       m_aDivisions |-> [j \in 1..cDivisions |-> Uninit],
                       m_cDivisionCapacity |-> cDivisions]),
               IF oom = 0 THEN 0 ELSE oom - 1)
  ELSE Res(FALSE, SetDim(t, iDimension, [pDimension EXCEPT !.m_cDivisions = cDivisions]), oom)

SetCountDivisions(t, iDimension, cDivisions, oom) ==
  LET pDimension == Dim(t, iDimension) IN
  IF pDimension.m_cDivisionCapacity < cDivisions THEN
    IF IsAddError(cDivisions, cDivisions \div 2) THEN Res(TRUE, t, oom)
    ELSE LET cNewDivisionCapacity == cDivisions + (cDivisions \div 2) IN
      IF IsMultiplyError(sizeofTDivisions, cNewDivisionCapacity) THEN Res(TRUE, t, oom)
      ELSE IF oom = 1 THEN Res(TRUE, t, 0)
      ELSE Res(FALSE,
               SetDim(t, iDimension,
                      [m_cDivisions |-> cDivisions,
                       m_aDivisions |-> Realloc(pDimension.m_aDivisions, cNewDivisionCapacity),
                       m_cDivisionCapacity |-> cNewDivisionCapacity]),
               IF oom = 0 THEN 0 ELSE oom - 1)
  ELSE Res(FALSE, SetDim(t, iDimension, [pDimension EXCEPT !.m_cDivisions = cDivisions]), oom)

\* seeded fault: the value buffer is never grown
EnsureValueCapacityNoGrow(t, cValues, oom) == Res(FALSE, t, oom)

\* seeded fault: the value buffer is reallocated on every call
EnsureValueCapacityAlwaysGrow(t, cValues, oom) ==
  IF IsAddError(cValues, cValues \div 2) THEN Res(TRUE, t, oom)
  ELSE LET cNewValueCapacity == cValues + (cValues \div 2) + 1 IN
    IF IsMultiplyError(sizeofTValues, cNewValueCapacity) THEN Res(TRUE, t, oom)
    ELSE IF oom = 1 THEN Res(TRUE, t, 0)
    ELSE Res(FALSE,
             [t EXCEPT !.m_aValues = Realloc(t.m_aValues, cNewValueCapacity),
                       !.m_cValueCapacity = cNewValueCapacity],
             IF oom = 0 THEN 0 ELSE oom - 1)

EnsureValueCapacity(t, cValues, oom) ==
  IF t.m_cValueCapacity < cValues THEN
    IF IsAddError(cValues, cValues \div 2) THEN Res(TRUE, t, oom)
    ELSE LET cNewValueCapacity == cValues + (cValues \div 2) IN
      IF IsMultiplyError(sizeofTValues, cNewValueCapacity) THEN Res(TRUE, t, oom)
      ELSE IF oom = 1 THEN Res(TRUE, t, 0)
      ELSE Res(FALSE,
               [t EXCEPT !.m_aValues = Realloc(t.m_aValues, cNewValueCapacity),
                         !.m_cValueCapacity = cNewValueCapacity],
               IF oom = 0 THEN 0 ELSE oom - 1)
  ELSE Res(FALSE, t, oom)


(***************************************************************************)
(* Helpers shared by the operations.                                       *)
(***************************************************************************)
\* memcpy(dst, src, n elements)
Memcpy(dst, src, n) == [j \in 1..Len(dst) |-> IF j <= n THEN src[j] ELSE dst[j]]

\* size_t multiplication as the machine does it
MulWord(a, b) == (a * b) % (SIZE_MAX + 1)

RECURSIVE CountSegments(_, _)
\* product of (m_cDivisions + 1) over the dimensions below iEnd
CountSegments(t, iEnd) ==
  IF iEnd = 0 THEN 1
  ELSE MulWord(CountSegments(t, iEnd - 1), Dim(t, iEnd - 1).m_cDivisions + 1)

\* the number of meaningful scores of t
CountValues(t) == t.m_cVectorLength * CountSegments(t, t.m_cDimensions)

(***************************************************************************)
(* Copy                                                                    *)
(***************************************************************************)
RECURSIVE CopyDimensions(_, _, _, _)
CopyDimensions(t, from, iDimension, oom) ==
  IF iDimension = t.m_cDimensions THEN Res(FALSE, t, oom)
  ELSE
    LET pDimension == Dim(from, iDimension)
        cDivisions == pDimension.m_cDivisions
        r == SetCountDivisions(t, iDimension, cDivisions, oom)
    IN IF r.err THEN r
       ELSE CopyDimensions(
              SetDim(r.t, iDimension,
                     [Dim(r.t, iDimension) EXCEPT
                        !.m_aDivisions = Memcpy(@, pDimension.m_aDivisions, cDivisions)]),
              from, iDimension + 1, r.oom)

\* seeded fault: the expanded flag of rhs is not taken over
CopyWithoutExpandedFlag(t, from, oom) ==
  LET cValues == t.m_cVectorLength * CountSegments(from, t.m_cDimensions)
      d == CopyDimensions(t, from, 0, oom)
  IN IF d.err THEN d
     ELSE LET r == EnsureValueCapacity(d.t, cValues, d.oom) IN
       IF r.err THEN r
       ELSE Res(FALSE, [r.t EXCEPT !.m_aValues = Memcpy(@, from.m_aValues, cValues)], r.oom)

Copy(t, from, oom) ==
  LET cValues == t.m_cVectorLength * CountSegments(from, t.m_cDimensions)
      d == CopyDimensions(t, from, 0, oom)
  IN IF d.err THEN d
     ELSE LET r == EnsureValueCapacity(d.t, cValues, d.oom) IN
       IF r.err THEN r
       ELSE Res(FALSE,
                [r.t EXCEPT !.m_aValues = Memcpy(@, from.m_aValues, cValues),
                            !.m_bExpanded = from.m_bExpanded],
                r.oom)

(***************************************************************************)
(* Multiply and AddExpanded                                                *)
(***************************************************************************)
\* seeded fault: the division counts are ignored and one score vector is scaled
MultiplyFirstSegment(t, v) ==
  [t EXCEPT !.m_aValues =
     [j \in 1..Len(@) |-> IF j <= t.m_cVectorLength THEN Times(@[j], v) ELSE @[j]]]

Multiply(t, v) ==
  LET cValues == CountSegments(t, t.m_cDimensions) IN
  [t EXCEPT !.m_aValues =
     [j \in 1..Len(@) |-> IF j <= cValues * t.m_cVectorLength THEN Times(@[j], v) ELSE @[j]]]

AddExpanded(t, aFromValues) ==
  LET cItems == CountValues(t) IN
  [t EXCEPT !.m_aValues =
     [j \in 1..Len(@) |-> IF j <= cItems THEN Plus(@[j], aFromValues[j]) ELSE @[j]]]

(***************************************************************************)
(* Expand                                                                  *)
(***************************************************************************)
RECURSIVE CountNewValues(_, _)
\* cNewValues of Expand: the product of the bins of the dimensions below iEnd
CountNewValues(acValuesPerDimension, iEnd) ==
  IF iEnd = 0 THEN 1
  ELSE MulWord(CountNewValues(acValuesPerDimension, iEnd - 1),
               At(acValuesPerDimension, iEnd - 1))

\* aDimensionInfoStackExpand after the counting loop
ExpandStack(t, acValuesPerDimension) ==
  [i \in 1..t.m_cDimensions |->
     [m_pDivision1 |-> t.m_aDimensions[i].m_cDivisions,
      m_iDivision2 |-> acValuesPerDimension[i] - 1,
      m_cNewDivisions |-> acValuesPerDimension[i] - 1]]

RECURSIVE ExpandCopyScoresFirst(_, _, _, _)
\* seeded fault: every dense cell receives the score vector of the first segment
ExpandCopyScoresFirst(aValues, pValue1Move, pValueTop, n) ==
  IF n = 0 THEN aValues
  ELSE ExpandCopyScoresFirst(Put(aValues, pValueTop - 1, At(aValues, n - 1)),
                             pValue1Move - 1, pValueTop - 1, n - 1)

RECURSIVE ExpandCopyScores(_, _, _, _)
\* the do-while that copies one score vector downwards
ExpandCopyScores(aValues, pValue1Move, pValueTop, n) ==
  IF n = 0 THEN aValues
  ELSE ExpandCopyScores(Put(aValues, pValueTop - 1, At(aValues, pValue1Move - 1)),
                        pValue1Move - 1, pValueTop - 1, n - 1)

RECURSIVE ExpandAdvanceStrict(_, _, _, _, _)
\* seeded fault: bMove compares with < instead of <=
ExpandAdvanceStrict(t, stack, pValue1, iDim, multiplication1) ==
  LET e == At(stack, iDim)
      pDivision1 == e.m_pDivision1
      iDivision2 == e.m_iDivision2
      aDivisions1 == Dim(t, iDim).m_aDivisions
  IN IF 0 < pDivision1 THEN
       LET d1 == At(aDivisions1, pDivision1 - 1)
           iDivision2Dec == iDivision2 - 1
           bMove == iDivision2Dec < d1
       IN [stack |-> Put(stack, iDim,
                         [e EXCEPT !.m_pDivision1 = IF bMove THEN pDivision1 - 1 ELSE pDivision1,
                                   !.m_iDivision2 = iDivision2Dec]),
           pValue1 |-> IF bMove THEN pValue1 - multiplication1 ELSE pValue1]
     ELSE IF 0 < iDivision2 THEN
       [stack |-> Put(stack, iDim, [e EXCEPT !.m_iDivision2 = iDivision2 - 1]),
        pValue1 |-> pValue1]
     ELSE
       LET cDivisions1 == Dim(t, iDim).m_cDivisions
           multiplicationNext == multiplication1 * (1 + cDivisions1)
       IN ExpandAdvanceStrict(t,
                              Put(stack, iDim,
                                  [e EXCEPT !.m_pDivision1 = cDivisions1,
                                            !.m_iDivision2 = e.m_cNewDivisions]),
                              (pValue1 - multiplication1) + multiplicationNext,
                              iDim + 1, multiplicationNext)

RECURSIVE ExpandAdvance(_, _, _, _, _)
\* the inner while(true): move the cursors to the next lower dense cell
ExpandAdvance(t, stack, pValue1, iDim, multiplication1) ==
  LET e == At(stack, iDim)
      pDivision1 == e.m_pDivision1
      iDivision2 == e.m_iDivision2
      aDivisions1 == Dim(t, iDim).m_aDivisions
  IN IF 0 < pDivision1 THEN
       LET d1 == At(aDivisions1, pDivision1 - 1)
           iDivision2Dec == iDivision2 - 1
           bMove == iDivision2Dec <= d1
       IN [stack |-> Put(stack, iDim,
                         [e EXCEPT !.m_pDivision1 = IF bMove THEN pDivision1 - 1 ELSE pDivision1,
                                   !.m_iDivision2 = iDivision2Dec]),
           pValue1 |-> IF bMove THEN pValue1 - multiplication1 ELSE pValue1]
     ELSE IF 0 < iDivision2 THEN
       [stack |-> Put(stack, iDim, [e EXCEPT !.m_iDivision2 = iDivision2 - 1]),
        pValue1 |-> pValue1]
     ELSE
       LET cDivisions1 == Dim(t, iDim).m_cDivisions
           multiplicationNext == multiplication1 * (1 + cDivisions1)
       IN ExpandAdvance(t,
                        Put(stack, iDim,
                            [e EXCEPT !.m_pDivision1 = cDivisions1,
                                      !.m_iDivision2 = e.m_cNewDivisions]),
                        (pValue1 - multiplication1) + multiplicationNext,
                        iDim + 1, multiplicationNext)

RECURSIVE ExpandFill(_, _, _, _, _)
\* the outer while(true): fill the dense cells from the highest to the lowest
ExpandFill(t, aValues, stack, pValue1, pValueTop) ==
  LET written == ExpandCopyScores(aValues, pValue1, pValueTop, t.m_cVectorLength)
      pValueTopEnd == pValueTop - t.m_cVectorLength
  IN IF pValueTopEnd = 0 THEN written
     ELSE LET adv == ExpandAdvance(t, stack, pValue1, 0, t.m_cVectorLength)
          IN ExpandFill(t, written, adv.stack, adv.pValue1, pValueTopEnd)

RECURSIVE ExpandCursorsFrom(_, _, _)
RECURSIVE ExpandCursors(_, _, _, _)
\* the cursor positions of the outer while(true) of Expand, one entry per
\* score vector copied: pValue1 is one past the vector that is read and
\* pValueTop one past the vector that is written
ExpandCursors(t, stack, pValue1, pValueTop) ==
  IF pValueTop - t.m_cVectorLength = 0
    THEN << [pValue1 |-> pValue1, pValueTop |-> pValueTop] >>
  ELSE << [pValue1 |-> pValue1, pValueTop |-> pValueTop] >>
       \o ExpandCursorsFrom(t, ExpandAdvance(t, stack, pValue1, 0, t.m_cVectorLength),
                            pValueTop - t.m_cVectorLength)

ExpandCursorsFrom(t, adv, pValueTopEnd) ==
  ExpandCursors(t, adv.stack, adv.pValue1, pValueTopEnd)

RECURSIVE ExpandDivisionsFromOne(_, _, _, _)
\* seeded fault: the rewritten divisions start at 1 instead of 0
ExpandDivisionsFromOne(t, acValuesPerDimension, iDimension, oom) ==
  IF iDimension = t.m_cDimensions THEN Res(FALSE, [t EXCEPT !.m_bExpanded = TRUE], oom)
  ELSE
    LET cDivisions == At(acValuesPerDimension, iDimension) - 1 IN
    IF cDivisions = Dim(t, iDimension).m_cDivisions
      THEN ExpandDivisionsFromOne(t, acValuesPerDimension, iDimension + 1, oom)
    ELSE
      LET r == SetCountDivisions(t, iDimension, cDivisions, oom) IN
      IF r.err THEN r
      ELSE ExpandDivisionsFromOne(
             SetDim(r.t, iDimension,
                    [Dim(r.t, iDimension) EXCEPT
                       !.m_aDivisions = [j \in 1..Len(@) |-> IF j <= cDivisions THEN j ELSE @[j]]]),
             acValuesPerDimension, iDimension + 1, r.oom)

RECURSIVE ExpandDivisions(_, _, _, _)
\* the final for loop: the identity divisions of every axis, then m_bExpanded
ExpandDivisions(t, acValuesPerDimension, iDimension, oom) ==
  IF iDimension = t.m_cDimensions THEN Res(FALSE, [t EXCEPT !.m_bExpanded = TRUE], oom)
  ELSE
    LET cDivisions == At(acValuesPerDimension, iDimension) - 1 IN
    IF cDivisions = Dim(t, iDimension).m_cDivisions
      THEN ExpandDivisions(t, acValuesPerDimension, iDimension + 1, oom)
    ELSE
      LET r == SetCountDivisions(t, iDimension, cDivisions, oom) IN
      IF r.err THEN r
      ELSE ExpandDivisions(
             SetDim(r.t, iDimension,
                    [Dim(r.t, iDimension) EXCEPT
                       !.m_aDivisions = [j \in 1..Len(@) |-> IF j <= cDivisions THEN j - 1 ELSE @[j]]]),
             acValuesPerDimension, iDimension + 1, r.oom)

\* seeded fault: an expanded tensor is expanded again
ExpandWithoutShortcut(t, acValuesPerDimension, oom) ==
  LET cValues1 == CountSegments(t, t.m_cDimensions)
      cNewValues == CountNewValues(acValuesPerDimension, t.m_cDimensions)
  IN IF IsMultiplyError(cNewValues, t.m_cVectorLength) THEN Res(TRUE, t, oom)
     ELSE
       LET cVectoredNewValues == cNewValues * t.m_cVectorLength
           r == EnsureValueCapacity(t, cVectoredNewValues, oom)
       IN IF r.err THEN r
          ELSE ExpandDivisions(
                 [r.t EXCEPT !.m_aValues =
                    ExpandFill(r.t, @, ExpandStack(r.t, acValuesPerDimension),
                               t.m_cVectorLength * cValues1, cVectoredNewValues)],
                 acValuesPerDimension, 0, r.oom)

Expand(t, acValuesPerDimension, oom) ==
  IF t.m_bExpanded THEN Res(FALSE, t, oom)
  ELSE
    LET cValues1 == CountSegments(t, t.m_cDimensions)
        cNewValues == CountNewValues(acValuesPerDimension, t.m_cDimensions)
    IN IF IsMultiplyError(cNewValues, t.m_cVectorLength) THEN Res(TRUE, t, oom)
       ELSE
         LET cVectoredNewValues == cNewValues * t.m_cVectorLength
             r == EnsureValueCapacity(t, cVectoredNewValues, oom)
         IN IF r.err THEN r
            ELSE ExpandDivisions(
                   [r.t EXCEPT !.m_aValues =
                      ExpandFill(r.t, @, ExpandStack(r.t, acValuesPerDimension),
                                 t.m_cVectorLength * cValues1, cVectoredNewValues)],
                   acValuesPerDimension, 0, r.oom)

(***************************************************************************)
(* Add                                                                     *)
(***************************************************************************)
RECURSIVE CountNewDivisions(_, _, _, _, _, _, _)
\* the forward two-pointer count of the union of two division arrays
CountNewDivisions(aDivisions1, p1End, aDivisions2, p2End, p1Cur, p2Cur, c) ==
  IF p2End = p2Cur THEN c + (p1End - p1Cur)
  ELSE IF p1End = p1Cur THEN c + (p2End - p2Cur)
  ELSE
    LET d1 == At(aDivisions1, p1Cur)
        d2 == At(aDivisions2, p2Cur)
    IN CountNewDivisions(aDivisions1, p1End, aDivisions2, p2End,
                         IF d1 <= d2 THEN p1Cur + 1 ELSE p1Cur,
                         IF d2 <= d1 THEN p2Cur + 1 ELSE p2Cur,
                         c + 1)

\* dimensionStack after the counting loop
AddStack(t, from) ==
  [i \in 1..t.m_cDimensions |->
     [m_pDivision1 |-> t.m_aDimensions[i].m_cDivisions,
      m_pDivision2 |-> from.m_aDimensions[i].m_cDivisions,
      m_cNewDivisions |->
        CountNewDivisions(t.m_aDimensions[i].m_aDivisions, t.m_aDimensions[i].m_cDivisions,
                          from.m_aDimensions[i].m_aDivisions, from.m_aDimensions[i].m_cDivisions,
                          0, 0, 0)]]

RECURSIVE AddCountNewValues(_, _)
\* cNewValues of Add: the product of (m_cNewDivisions + 1) below iEnd
AddCountNewValues(stack, iEnd) ==
  IF iEnd = 0 THEN 1
  ELSE MulWord(AddCountNewValues(stack, iEnd - 1), At(stack, iEnd - 1).m_cNewDivisions + 1)

RECURSIVE AddScoresOverwrite(_, _, _, _, _, _)
\* seeded fault: *pValueTop = *pValue2Move
AddScoresOverwrite(aValues, aValues2, pValue1Move, pValue2Move, pValueTop, n) ==
  IF n = 0 THEN aValues
  ELSE AddScoresOverwrite(Put(aValues, pValueTop - 1, At(aValues2, pValue2Move - 1)),
                          aValues2, pValue1Move - 1, pValue2Move - 1, pValueTop - 1, n - 1)

RECURSIVE AddScores(_, _, _, _, _, _)
\* the do-while that writes one score vector: *pValueTop = *pValue1Move + *pValue2Move
AddScores(aValues, aValues2, pValue1Move, pValue2Move, pValueTop, n) ==
  IF n = 0 THEN aValues
  ELSE AddScores(Put(aValues, pValueTop - 1,
                     Plus(At(aValues, pValue1Move - 1), At(aValues2, pValue2Move - 1))),
                 aValues2, pValue1Move - 1, pValue2Move - 1, pValueTop - 1, n - 1)

RECURSIVE AddAdvanceFavourRhs(_, _, _, _, _, _, _, _)
\* seeded fault: on a shared division point only the cursor of rhs moves
AddAdvanceFavourRhs(t, from, stack, pValue1, pValue2, iDim, multiplication1, multiplication2) ==
  LET e == At(stack, iDim)
      pDivision1 == e.m_pDivision1
      pDivision2 == e.m_pDivision2
      aDivisions1 == Dim(t, iDim).m_aDivisions
      aDivisions2 == Dim(from, iDim).m_aDivisions
  IN IF 0 < pDivision1 THEN
       IF 0 < pDivision2 THEN
         LET d1 == At(aDivisions1, pDivision1 - 1)
             d2 == At(aDivisions2, pDivision2 - 1)
             bMove1 == d2 < d1
             bMove2 == d1 <= d2
         IN [stack |-> Put(stack, iDim,
                           [e EXCEPT !.m_pDivision1 = IF bMove1 THEN pDivision1 - 1 ELSE pDivision1,
                                     !.m_pDivision2 = IF bMove2 THEN pDivision2 - 1 ELSE pDivision2]),
             pValue1 |-> IF bMove1 THEN pValue1 - multiplication1 ELSE pValue1,
             pValue2 |-> IF bMove2 THEN pValue2 - multiplication2 ELSE pValue2]
       ELSE
         [stack |-> Put(stack, iDim, [e EXCEPT !.m_pDivision1 = pDivision1 - 1]),
          pValue1 |-> pValue1 - multiplication1,
          pValue2 |-> pValue2]
     ELSE IF 0 < pDivision2 THEN
       [stack |-> Put(stack, iDim, [e EXCEPT !.m_pDivision2 = pDivision2 - 1]),
        pValue1 |-> pValue1,
        pValue2 |-> pValue2 - multiplication2]
     ELSE
       LET cDivisions1 == Dim(t, iDim).m_cDivisions
           cDivisions2 == Dim(from, iDim).m_cDivisions
           multiplicationNext1 == multiplication1 * (1 + cDivisions1)
           multiplicationNext2 == multiplication2 * (1 + cDivisions2)
       IN AddAdvanceFavourRhs(t, from,
                     Put(stack, iDim,
                         [e EXCEPT !.m_pDivision1 = cDivisions1, !.m_pDivision2 = cDivisions2]),
                     (pValue1 - multiplication1) + multiplicationNext1,
                     (pValue2 - multiplication2) + multiplicationNext2,
                     iDim + 1, multiplicationNext1, multiplicationNext2)

RECURSIVE AddAdvanceKeepValueCursor(_, _, _, _, _, _, _, _)
\* seeded fault: on a shared division the value cursor of this tensor stays
AddAdvanceKeepValueCursor(t, from, stack, pValue1, pValue2, iDim, multiplication1, multiplication2) ==
  LET e == At(stack, iDim)
      pDivision1 == e.m_pDivision1
      pDivision2 == e.m_pDivision2
      aDivisions1 == Dim(t, iDim).m_aDivisions
      aDivisions2 == Dim(from, iDim).m_aDivisions
  IN IF 0 < pDivision1 THEN
       IF 0 < pDivision2 THEN
         LET d1 == At(aDivisions1, pDivision1 - 1)
             d2 == At(aDivisions2, pDivision2 - 1)
             bMove1 == d2 <= d1
             bMove2 == d1 <= d2
         IN [stack |-> Put(stack, iDim,
                           [e EXCEPT !.m_pDivision1 = IF bMove1 THEN pDivision1 - 1 ELSE pDivision1,
                                     !.m_pDivision2 = IF bMove2 THEN pDivision2 - 1 ELSE pDivision2]),
             pValue1 |-> IF bMove1 /\ ~bMove2 THEN pValue1 - multiplication1 ELSE pValue1,
             pValue2 |-> IF bMove2 THEN pValue2 - multiplication2 ELSE pValue2]
       ELSE
         [stack |-> Put(stack, iDim, [e EXCEPT !.m_pDivision1 = pDivision1 - 1]),
          pValue1 |-> pValue1 - multiplication1,
          pValue2 |-> pValue2]
     ELSE IF 0 < pDivision2 THEN
       [stack |-> Put(stack, iDim, [e EXCEPT !.m_pDivision2 = pDivision2 - 1]),
        pValue1 |-> pValue1,
        pValue2 |-> pValue2 - multiplication2]
     ELSE
       LET cDivisions1 == Dim(t, iDim).m_cDivisions
           cDivisions2 == Dim(from, iDim).m_cDivisions
           multiplicationNext1 == multiplication1 * (1 + cDivisions1)
           multiplicationNext2 == multiplication2 * (1 + cDivisions2)
       IN AddAdvanceKeepValueCursor(t, from,
                     Put(stack, iDim,
                         [e EXCEPT !.m_pDivision1 = cDivisions1, !.m_pDivision2 = cDivisions2]),
                     (pValue1 - multiplication1) + multiplicationNext1,
                     (pValue2 - multiplication2) + multiplicationNext2,
                     iDim + 1, multiplicationNext1, multiplicationNext2)

RECURSIVE AddAdvance(_, _, _, _, _, _, _, _)
\* the inner while(true): move the cursor pairs to the next lower cell of the new grid
AddAdvance(t, from, stack, pValue1, pValue2, iDim, multiplication1, multiplication2) ==
  LET e == At(stack, iDim)
      pDivision1 == e.m_pDivision1
      pDivision2 == e.m_pDivision2
      aDivisions1 == Dim(t, iDim).m_aDivisions
      aDivisions2 == Dim(from, iDim).m_aDivisions
  IN IF 0 < pDivision1 THEN
       IF 0 < pDivision2 THEN
         LET d1 == At(aDivisions1, pDivision1 - 1)
             d2 == At(aDivisions2, pDivision2 - 1)
             bMove1 == d2 <= d1
             bMove2 == d1 <= d2
         IN [stack |-> Put(stack, iDim,
                           [e EXCEPT !.m_pDivision1 = IF bMove1 THEN pDivision1 - 1 ELSE pDivision1,
                                     !.m_pDivision2 = IF bMove2 THEN pDivision2 - 1 ELSE pDivision2]),
             pValue1 |-> IF bMove1 THEN pValue1 - multiplication1 ELSE pValue1,
             pValue2 |-> IF bMove2 THEN pValue2 - multiplication2 ELSE pValue2]
       ELSE
         [stack |-> Put(stack, iDim, [e EXCEPT !.m_pDivision1 = pDivision1 - 1]),
          pValue1 |-> pValue1 - multiplication1,
          pValue2 |-> pValue2]
     ELSE IF 0 < pDivision2 THEN
       [stack |-> Put(stack, iDim, [e EXCEPT !.m_pDivision2 = pDivision2 - 1]),
        pValue1 |-> pValue1,
        pValue2 |-> pValue2 - multiplication2]
     ELSE
       LET cDivisions1 == Dim(t, iDim).m_cDivisions
           cDivisions2 == Dim(from, iDim).m_cDivisions
           multiplicationNext1 == multiplication1 * (1 + cDivisions1)
           multiplicationNext2 == multiplication2 * (1 + cDivisions2)
       IN AddAdvance(t, from,
                     Put(stack, iDim,
                         [e EXCEPT !.m_pDivision1 = cDivisions1, !.m_pDivision2 = cDivisions2]),
                     (pValue1 - multiplication1) + multiplicationNext1,
                     (pValue2 - multiplication2) + multiplicationNext2,
                     iDim + 1, multiplicationNext1, multiplicationNext2)

RECURSIVE AddFillStopEarly(_, _, _, _, _, _, _)
\* seeded fault: the loop ends before the lowest cell is written
AddFillStopEarly(t, from, aValues, stack, pValue1, pValue2, pValueTop) ==
  LET written == AddScores(aValues, from.m_aValues, pValue1, pValue2, pValueTop, t.m_cVectorLength)
      pValueTopEnd == pValueTop - t.m_cVectorLength
  IN IF pValueTopEnd = 0 THEN aValues
     ELSE LET adv == AddAdvance(t, from, stack, pValue1, pValue2, 0,
                                t.m_cVectorLength, t.m_cVectorLength)
          IN AddFillStopEarly(t, from, written, adv.stack, adv.pValue1, adv.pValue2, pValueTopEnd)

RECURSIVE AddFill(_, _, _, _, _, _, _)
\* the outer while(true): write the cells of the new grid from the highest to the lowest
AddFill(t, from, aValues, stack, pValue1, pValue2, pValueTop) ==
  LET written == AddScores(aValues, from.m_aValues, pValue1, pValue2, pValueTop, t.m_cVectorLength)
      pValueTopEnd == pValueTop - t.m_cVectorLength
  IN IF pValueTopEnd = 0 THEN written
     ELSE LET adv == AddAdvance(t, from, stack, pValue1, pValue2, 0,
                                t.m_cVectorLength, t.m_cVectorLength)
          IN AddFill(t, from, written, adv.stack, adv.pValue1, adv.pValue2, pValueTopEnd)

RECURSIVE AddCursorsFrom(_, _, _, _)
RECURSIVE AddCursors(_, _, _, _, _, _)
\* the cursor positions of the outer while(true) of Add, one entry per score
\* vector written: pValue1 and pValue2 are one past the vectors that are read
\* and pValueTop one past the vector that is written
AddCursors(t, from, stack, pValue1, pValue2, pValueTop) ==
  IF pValueTop - t.m_cVectorLength = 0
    THEN << [pValue1 |-> pValue1, pValue2 |-> pValue2, pValueTop |-> pValueTop] >>
  ELSE << [pValue1 |-> pValue1, pValue2 |-> pValue2, pValueTop |-> pValueTop] >>
       \o AddCursorsFrom(t, from,
                         AddAdvance(t, from, stack, pValue1, pValue2, 0,
                                    t.m_cVectorLength, t.m_cVectorLength),
                         pValueTop - t.m_cVectorLength)

AddCursorsFrom(t, from, adv, pValueTopEnd) ==
  AddCursors(t, from, adv.stack, adv.pValue1, adv.pValue2, pValueTopEnd)

RECURSIVE MergeDivisionsSmaller(_, _, _, _, _)
\* seeded fault: the reverse merge writes the smaller of the two candidates
MergeDivisionsSmaller(aDivisions1, aDivisions2, p1Cur, p2Cur, pTopCur) ==
  IF pTopCur = p1Cur THEN aDivisions1
  ELSE IF pTopCur = p2Cur THEN Memcpy(aDivisions1, aDivisions2, pTopCur)
  ELSE
    LET d1 == At(aDivisions1, p1Cur - 1)
        d2 == At(aDivisions2, p2Cur - 1)
        d == IF d1 <= d2 THEN d1 ELSE d2
    IN MergeDivisionsSmaller(Put(aDivisions1, pTopCur - 1, d), aDivisions2,
                             IF d2 <= d1 THEN p1Cur - 1 ELSE p1Cur,
                             IF d1 <= d2 THEN p2Cur - 1 ELSE p2Cur,
                             pTopCur - 1)

RECURSIVE MergeDivisions(_, _, _, _, _)
\* the reverse merge of the divisions of one axis into aDivisions1
MergeDivisions(aDivisions1, aDivisions2, p1Cur, p2Cur, pTopCur) ==
  IF pTopCur = p1Cur THEN aDivisions1
  ELSE IF pTopCur = p2Cur THEN Memcpy(aDivisions1, aDivisions2, pTopCur)
  ELSE
    LET d1 == At(aDivisions1, p1Cur - 1)
        d2 == At(aDivisions2, p2Cur - 1)
        d == IF d1 <= d2 THEN d2 ELSE d1
    IN MergeDivisions(Put(aDivisions1, pTopCur - 1, d), aDivisions2,
                      IF d2 <= d1 THEN p1Cur - 1 ELSE p1Cur,
                      IF d1 <= d2 THEN p2Cur - 1 ELSE p2Cur,
                      pTopCur - 1)

\* seeded fault: one pass of the reverse merge lowers both read cursors
MergeStepBothMove(aDivisions1, aDivisions2, p1Cur, p2Cur, pTopCur) ==
  [aDivisions1 |-> Put(aDivisions1, pTopCur - 1,
                       IF At(aDivisions1, p1Cur - 1) <= At(aDivisions2, p2Cur - 1)
                         THEN At(aDivisions2, p2Cur - 1) ELSE At(aDivisions1, p1Cur - 1)),
   p1Cur |-> p1Cur - 1,
   p2Cur |-> p2Cur - 1,
   pTopCur |-> pTopCur - 1]

\* one pass of the reverse merge past its two tests: read d1 and d2, lower the
\* cursors, write the larger division below pTopCur
MergeStep(aDivisions1, aDivisions2, p1Cur, p2Cur, pTopCur) ==
  [aDivisions1 |-> Put(aDivisions1, pTopCur - 1,
                       IF At(aDivisions1, p1Cur - 1) <= At(aDivisions2, p2Cur - 1)
                         THEN At(aDivisions2, p2Cur - 1) ELSE At(aDivisions1, p1Cur - 1)),
   p1Cur |-> IF At(aDivisions2, p2Cur - 1) <= At(aDivisions1, p1Cur - 1) THEN p1Cur - 1 ELSE p1Cur,
   p2Cur |-> IF At(aDivisions1, p1Cur - 1) <= At(aDivisions2, p2Cur - 1) THEN p2Cur - 1 ELSE p2Cur,
   pTopCur |-> pTopCur - 1]

\* the cursors of the reverse merge at the head of one pass, with the branch
\* the pass takes
MergeCursor(p1Cur, p2Cur, pTopCur, branch) ==
  [p1Cur |-> p1Cur, p2Cur |-> p2Cur, pTopCur |-> pTopCur, branch |-> branch]

RECURSIVE MergeCursors(_, _, _, _, _)
RECURSIVE MergeCursorsFrom(_, _)
\* the cursors of the reverse merge of one axis, pass by pass; a pass that
\* would read or write in front of an array ends the walk as "stray"
MergeCursors(aDivisions1, aDivisions2, p1Cur, p2Cur, pTopCur) ==
  IF pTopCur = p1Cur THEN << MergeCursor(p1Cur, p2Cur, pTopCur, "break") >>
  ELSE IF pTopCur = p2Cur THEN << MergeCursor(p1Cur, p2Cur, pTopCur, "memcpy") >>
  ELSE IF p1Cur = 0 \/ p2Cur = 0 \/ pTopCur = 0
    THEN << MergeCursor(p1Cur, p2Cur, pTopCur, "stray") >>
  ELSE << MergeCursor(p1Cur, p2Cur, pTopCur, "merge") >>
       \o MergeCursorsFrom(aDivisions2, MergeStep(aDivisions1, aDivisions2, p1Cur, p2Cur, pTopCur))

MergeCursorsFrom(aDivisions2, m) ==
  MergeCursors(m.aDivisions1, aDivisions2, m.p1Cur, m.p2Cur, m.pTopCur)

RECURSIVE AddDivisions(_, _, _, _, _)
\* the final do-while over the dimensions
AddDivisions(t, from, stack, iDimension, oom) ==
  LET cNewDivisions == At(stack, iDimension).m_cNewDivisions
      cOriginalDivisionsBeforeSetting == Dim(t, iDimension).m_cDivisions
      r == SetCountDivisions(t, iDimension, cNewDivisions, oom)
  IN IF r.err THEN r
     ELSE
       LET merged ==
             SetDim(r.t, iDimension,
                    [Dim(r.t, iDimension) EXCEPT
                       !.m_aDivisions =
                          MergeDivisions(@, Dim(from, iDimension).m_aDivisions,
                                         cOriginalDivisionsBeforeSetting,
                                         Dim(from, iDimension).m_cDivisions,
                                         cNewDivisions)])
       IN IF iDimension + 1 = t.m_cDimensions THEN Res(FALSE, merged, r.oom)
          ELSE AddDivisions(merged, from, stack, iDimension + 1, r.oom)

\* seeded fault: the zero-dimensional loop runs whatever the dimension count
AddFirstSegmentOnly(t, from, oom) ==
  Res(FALSE,
      [t EXCEPT !.m_aValues =
         [j \in 1..Len(@) |-> IF j <= t.m_cVectorLength THEN Plus(@[j], from.m_aValues[j]) ELSE @[j]]],
      oom)

Add(t, from, oom) ==
  IF t.m_cDimensions = 0 THEN
    Res(FALSE,
        [t EXCEPT !.m_aValues =
           [j \in 1..Len(@) |-> IF j <= t.m_cVectorLength THEN Plus(@[j], from.m_aValues[j]) ELSE @[j]]],
        oom)
  ELSE
    LET stack == AddStack(t, from)
        cValues1 == CountSegments(t, t.m_cDimensions)
        cValues2 == CountSegments(from, t.m_cDimensions)
        cNewValues == AddCountNewValues(stack, t.m_cDimensions)
    IN IF IsMultiplyError(cNewValues, t.m_cVectorLength) THEN Res(TRUE, t, oom)
       ELSE
         LET r == EnsureValueCapacity(t, cNewValues * t.m_cVectorLength, oom) IN
         IF r.err THEN r
         ELSE AddDivisions(
                [r.t EXCEPT !.m_aValues =
                   AddFill(r.t, from, @, stack,
                           t.m_cVectorLength * cValues1,
                           t.m_cVectorLength * cValues2,
                           t.m_cVectorLength * cNewValues)],
                from, stack, 0, r.oom)

(***************************************************************************)
(* IsEqual                                                                 *)
(***************************************************************************)
RECURSIVE IsEqualDimensions(_, _, _)
IsEqualDimensions(t, other, iDimension) ==
  IF iDimension = t.m_cDimensions THEN TRUE
  ELSE
    LET pDimension1 == Dim(t, iDimension)
        pDimension2 == Dim(other, iDimension)
        cDivisions == pDimension1.m_cDivisions
    IN /\ cDivisions = pDimension2.m_cDivisions
       /\ \A j \in 1..cDivisions : pDimension1.m_aDivisions[j] = pDimension2.m_aDivisions[j]
       /\ IsEqualDimensions(t, other, iDimension + 1)

\* *pV1Cur != *pV2Cur on TValues
Differs(a, b) == a # b \/ a = NaN \/ b = NaN

IsEqual(t, other) ==
  /\ t.m_cDimensions = other.m_cDimensions
  /\ IsEqualDimensions(t, other, 0)
  /\ \A j \in 1..CountValues(t) : ~Differs(t.m_aValues[j], other.m_aValues[j])

(***************************************************************************)
(* The callers of the tensor: what they hand in.                           *)
(***************************************************************************)
\* the smallest vector length whose initial value buffer overflows size_t
OverflowVectorLength == SIZE_MAX \div (sizeofTValues * k_initialValueCapacity) + 1

VectorLengths == (1..MaxVectorLength) \cup {OverflowVectorLength}

\* the smallest division count whose grown capacity overflows size_t
OverflowDivisions ==
  CHOOSE c \in 1..SIZE_MAX :
    /\ IsAddError(c, c \div 2) \/ IsMultiplyError(sizeofTDivisions, c + (c \div 2))
    /\ \A b \in 1..(c - 1) :
         ~(IsAddError(b, b \div 2) \/ IsMultiplyError(sizeofTDivisions, b + (b \div 2)))

\* strictly increasing division arrays of at most cMax points below cCoordinates
Arrays(cCoordinates, cMax) ==
  {a \in UNION {[1..n -> 0..(cCoordinates - 1)] : n \in 0..cMax} :
     \A i \in 1..Len(a) : \A j \in 1..Len(a) : i < j => a[i] < a[j]}

\* every segmentation of the grid of MaxBins bins per axis
GridShapes(cDimensions) == [1..cDimensions -> Arrays(MaxBins - 1, MaxBins - 1)]

\* the segmentations of the operands of Copy and Add on that grid
OperandArrays(i) ==
  IF i % 2 = 1 THEN {<<>>, <<0>>}
  ELSE {<<0>>, [j \in 1..(MaxBins - 1) |-> j - 1]}

\* the segmentations the partitioners write on that grid
TensorArrays(i) ==
  IF i % 2 = 1 THEN {<<>>, <<MaxBins - 2>>, [j \in 1..(MaxBins - 1) |-> j - 1]}
  ELSE {<<>>, <<MaxBins - 2>>}

TensorShapes(cDimensions) ==
  {aa \in GridShapes(cDimensions) : \A i \in 1..cDimensions : aa[i] \in TensorArrays(i)}

OperandShapes(cDimensions) ==
  {aa \in GridShapes(cDimensions) : \A i \in 1..cDimensions : aa[i] \in OperandArrays(i)}

RECURSIVE SumLen(_, _)
SumLen(aa, n) == IF n = 0 THEN 0 ELSE Len(aa[n]) + SumLen(aa, n - 1)

\* segmentations of at most MaxDivisions divisions on the grid of WideBins bins per axis
WideShapes(cDimensions) ==
  {aa \in [1..cDimensions -> Arrays(WideBins - 1, MaxDivisions)] :
     SumLen(aa, cDimensions) <= MaxDivisions}

\* score patterns <<first, step>>: slot j (from 0) of the scores receives first + step * j
ScorePatterns == {<<1, 1>>, <<10, 10>>, <<7, 2>>}

OperandPatterns == {<<1, 1>>, <<10, 10>>}

\* a tensor the operations may read: its active divisions are initialised and
\* strictly increasing and its meaningful scores lie inside the value buffer
WellFormed(t) ==
  /\ t.m_cVectorLength >= 1
  /\ \A i \in 1..t.m_cDimensions :
       LET d == t.m_aDimensions[i] IN
       /\ d.m_cDivisions <= d.m_cDivisionCapacity
       /\ \A j \in 1..d.m_cDivisions : d.m_aDivisions[j] >= 0
       /\ \A j \in 1..d.m_cDivisions : \A k \in 1..d.m_cDivisions :
            j < k => d.m_aDivisions[j] < d.m_aDivisions[k]
  /\ \A i \in 1..t.m_cDimensions :
       ~IsMultiplyError(CountSegments(t, i - 1), t.m_aDimensions[i].m_cDivisions + 1)
  /\ ~IsMultiplyError(t.m_cVectorLength, CountSegments(t, t.m_cDimensions))
  /\ CountValues(t) <= t.m_cValueCapacity
  /\ \A j \in 1..CountValues(t) : t.m_aValues[j] # Uninit

RECURSIVE WriteDivisions(_, _, _, _)
\* a partitioner sizing and writing the divisions of every active axis
WriteDivisions(t, aaDivisions, iDimension, oom) ==
  IF iDimension = t.m_cDimensions THEN Res(FALSE, t, oom)
  ELSE
    LET aDivisions == At(aaDivisions, iDimension)
        r == SetCountDivisions(t, iDimension, Len(aDivisions), oom)
    IN IF r.err THEN r
       ELSE WriteDivisions(
              SetDim(r.t, iDimension,
                     [Dim(r.t, iDimension) EXCEPT
                        !.m_aDivisions = Memcpy(@, aDivisions, Len(aDivisions))]),
              aaDivisions, iDimension + 1, r.oom)

\* a partitioner writing a whole tensor
WriteSegments(t, aaDivisions, pattern, oom) ==
  LET d == WriteDivisions(t, aaDivisions, 0, oom) IN
  IF d.err THEN d
  ELSE
    LET cValues == CountValues(d.t)
        r == EnsureValueCapacity(d.t, cValues, d.oom)
    IN IF r.err THEN r
       ELSE Res(FALSE,
                [r.t EXCEPT !.m_aValues =
                   [j \in 1..Len(@) |-> IF j <= cValues THEN pattern[1] + pattern[2] * (j - 1) ELSE @[j]]],
                r.oom)

\* the caller contract of Expand: every division lies below the last bin of its axis
\* and the product of the bins does not overflow (the EBM_ASSERTs of the counting loop)
ExpandContract(t, acValuesPerDimension) ==
  /\ 1 <= t.m_cDimensions
  /\ WellFormed(t)
  /\ \A i \in 1..t.m_cDimensions :
       /\ \A j \in 1..t.m_aDimensions[i].m_cDivisions :
            t.m_aDimensions[i].m_aDivisions[j] + 2 <= acValuesPerDimension[i]
       /\ ~IsMultiplyError(CountNewValues(acValuesPerDimension, i - 1), acValuesPerDimension[i])

\* the tensors a caller obtains by writing a fresh tensor
Written(cDimensions, cVectorLength, shapes, patterns) ==
  LET written ==
        {WriteSegments(SetCountDimensions(Allocate(MaxDims, cVectorLength), cDimensions),
                       aa, pattern, 0) : aa \in shapes, pattern \in patterns}
  IN {w.t : w \in {r \in written : ~r.err}}

\* the same tensors expanded onto the grid of cBins bins per axis
Expanded(tensors, cBins) ==
  LET expanded ==
        {Expand(o, [i \in 1..o.m_cDimensions |-> cBins], 0) :
           o \in {w \in tensors : ExpandContract(w, [i \in 1..w.m_cDimensions |-> cBins])}}
  IN {e.t : e \in {r \in expanded : ~r.err}}

\* the operands handed to Copy, Add and AddExpanded
Operands(cDimensions, cVectorLength, wide) ==
  IF wide THEN
    LET w == Written(cDimensions, cVectorLength, WideShapes(cDimensions), OperandPatterns)
    IN w \cup Expanded(w, MaxBins) \cup Expanded(w, WideBins)
  ELSE
    LET w == Written(cDimensions, cVectorLength, OperandShapes(cDimensions), {<<10, 10>>})
    IN w \cup Expanded(w, MaxBins)

RECURSIVE Power(_, _)
Power(b, n) == IF n = 0 THEN 1 ELSE b * Power(b, n - 1)

\* segment counts the callers size the value buffer for: one segment, the full
\* grid, and a grid with one axis of OverflowDivisions + 1 bins
SegmentCounts == {1, Power(MaxBins, MaxDims), OverflowDivisions + 1}

\* bins per axis handed to Expand
BinCounts == {MaxBins, MaxBins + 1, WideBins, OverflowDivisions + 1}

Multipliers == {0, 2, NaN}

\* which allocation call of an operation returns nullptr (0: none)
Ooms == 0..2

(***************************************************************************)
(* GenerateTermUpdate.  The booster core, the kernels and the partitioners *)
(* are outside the two source files: the core is a record of what the call *)
(* reads from it, and what a kernel or a partitioner does in one call is   *)
(* an input of the call.                                                   *)
(***************************************************************************)
Error_None == "Error_None"

Error_OutOfMemory == "Error_OutOfMemory"

Error_UnexpectedInternal == "Error_UnexpectedInternal"

Error_IllegalParamVal == "Error_IllegalParamVal"

\* BoosterShell::k_illegalTermIndex
k_illegalTermIndex == SIZE_MAX

k_illegalGainDouble == 0 - 3

\* the caller's double before the call wrote it
GainUnwritten == 0 - 4

MONOTONE_NONE == 0

TermBoostFlags_RandomSplits == "TermBoostFlags_RandomSplits"

\* a term over features with the given bin counts
Term(acBins) ==
  [acBins |-> acBins,
   cDimensions |-> Len(acBins),
   cRealDimensions |-> Cardinality({i \in 1..Len(acBins) : acBins[i] > 1}),
   cTensorBins |-> CountNewValues(acBins, Len(acBins))]

\* one real dimension; two real dimensions; no real dimension; a feature without bins;
\* three real dimensions; two real dimensions around a feature with one bin
Terms ==
  <<Term(<<MaxBins>>), Term(<<MaxBins - 1, MaxBins - 1>>), Term(<<1>>), Term(<<0, MaxBins>>),
    Term(<<2, 2, 2>>), Term(<<2, 1, 2>>)>>

BaseCore ==
  [aTerms |-> Terms, cTerms |-> Len(Terms), cScores |-> 1, cSamples |-> 1,
   cInnerBags |-> 0, cSubsets |-> 1, cSIMDPack |-> 1, bParallelFits |-> FALSE]

Cores ==
  {BaseCore,
   [BaseCore EXCEPT !.cScores = 0],
   [BaseCore EXCEPT !.cScores = 2],
   [BaseCore EXCEPT !.cSamples = 0],
   [BaseCore EXCEPT !.cInnerBags = 2],
   [BaseCore EXCEPT !.cSubsets = 2, !.cSIMDPack = 2, !.bParallelFits = TRUE]}

\* the shell of a freshly created booster
CreateShell(c) ==
  LET t == IF c.cScores = 0 THEN Nullptr ELSE Allocate(MaxTermDims, c.cScores) IN
  [m_iTerm |-> k_illegalTermIndex, m_pTermUpdate |-> t, m_pInnerTermUpdate |-> t]

SetTermIndex(sh, iTerm) == [sh EXCEPT !.m_iTerm = iTerm]

\* an event of a call: which step ran, for which inner bag and subset, and what it was
\* given or returned: the bins zeroed (ZeroMainBins), the error returned
\* (BinSumsBoosting), whether counts and weights were passed (ConvertAddBin), the
\* inner update tensor on entry and the error returned (a boosting path), the
\* tensor added and the error returned (Add), the gain tested (GainCheck), bBad
\* (MultiplyAndCheckForIssues), the index (SetTermIndex)
Ev(e, iBag, iSubset, a) == [e |-> e, bag |-> iBag, subset |-> iSubset, arg |-> a]

\* the result of a call
Done(error, sh, avgGainOut, trace) ==
  [error |-> error, shell |-> sh, avgGainOut |-> avgGainOut, trace |-> trace]

\* pBoosterCore->GetTerms()[iTerm]; reading past the array yields whatever lies there
TermAt(c, indexTerm) ==
  IF 0 <= indexTerm /\ indexTerm < c.cTerms THEN {c.aTerms[indexTerm + 1]}
  ELSE {c.aTerms[i] : i \in 1..c.cTerms}

\* seeded fault: the upper bound of indexTerm is compared with < instead of <=
CheckParamsOffByOne(c, sh, p) ==
  IF ~p.bBoosterHandle THEN [error |-> Error_IllegalParamVal, shell |-> sh]
  ELSE
    LET illegal == SetTermIndex(sh, k_illegalTermIndex) IN
    IF p.indexTerm < 0 THEN [error |-> Error_IllegalParamVal, shell |-> illegal]
    ELSE IF c.cTerms < p.indexTerm THEN [error |-> Error_IllegalParamVal, shell |-> illegal]
    ELSE [error |-> Error_None, shell |-> illegal]

\* seeded fault: the round update tensor is reset before the term index is checked
CheckParamsResetFirst(c, sh, p) ==
  IF ~p.bBoosterHandle THEN [error |-> Error_IllegalParamVal, shell |-> sh]
  ELSE
    LET illegal ==
          [SetTermIndex(sh, k_illegalTermIndex) EXCEPT
             !.m_pTermUpdate = IF @ = Nullptr THEN @ ELSE Reset(@)]
    IN
    IF p.indexTerm < 0 THEN [error |-> Error_IllegalParamVal, shell |-> illegal]
    ELSE IF c.cTerms <= p.indexTerm THEN [error |-> Error_IllegalParamVal, shell |-> illegal]
    ELSE [error |-> Error_None, shell |-> illegal]

\* the parameter checks with which the call begins
CheckParams(c, sh, p) ==
  IF ~p.bBoosterHandle THEN [error |-> Error_IllegalParamVal, shell |-> sh]
  ELSE
    LET illegal == SetTermIndex(sh, k_illegalTermIndex) IN
    IF p.indexTerm < 0 THEN [error |-> Error_IllegalParamVal, shell |-> illegal]
    ELSE IF c.cTerms <= p.indexTerm THEN [error |-> Error_IllegalParamVal, shell |-> illegal]
    ELSE [error |-> Error_None, shell |-> illegal]

RECURSIVE AnalyzeDimensionsLastOnly(_, _, _, _)
\* seeded fault: lastDimensionLeavesMax is overwritten by every real dimension
AnalyzeDimensionsLastOnly(pTerm, p, iDimensionInit, a) ==
  IF iDimensionInit = pTerm.cDimensions THEN a
  ELSE
    LET cBins == At(pTerm.acBins, iDimensionInit)
        featureDirection ==
          IF p.bDirection THEN At(p.direction, iDimensionInit) ELSE MONOTONE_NONE
        countLeavesMax == At(p.leavesMax, iDimensionInit)
    IN AnalyzeDimensionsLastOnly(pTerm, p, iDimensionInit + 1,
         IF 1 < cBins THEN
           [iDimensionImportant |-> iDimensionInit,
            cSignificantBinCount |-> cBins,
            significantDirection |->
              IF a.significantDirection # MONOTONE_NONE THEN a.significantDirection
              ELSE featureDirection,
            lastDimensionLeavesMax |-> IF countLeavesMax <= 1 THEN 0 ELSE countLeavesMax]
         ELSE a)

RECURSIVE AnalyzeDimensions(_, _, _, _)
\* the loop over the term's features: the last significant dimension, its bins,
\* the union of the directions and the last leaves-max above 1
AnalyzeDimensions(pTerm, p, iDimensionInit, a) ==
  IF iDimensionInit = pTerm.cDimensions THEN a
  ELSE
    LET cBins == At(pTerm.acBins, iDimensionInit)
        featureDirection ==
          IF p.bDirection THEN At(p.direction, iDimensionInit) ELSE MONOTONE_NONE
        countLeavesMax == At(p.leavesMax, iDimensionInit)
    IN AnalyzeDimensions(pTerm, p, iDimensionInit + 1,
         IF 1 < cBins THEN
           [iDimensionImportant |-> iDimensionInit,
            cSignificantBinCount |-> cBins,
            significantDirection |->
              IF a.significantDirection # MONOTONE_NONE THEN a.significantDirection
              ELSE featureDirection,
            lastDimensionLeavesMax |->
              IF countLeavesMax <= 1 THEN a.lastDimensionLeavesMax ELSE countLeavesMax]
         ELSE a)

Analysis(pTerm, p) ==
  LET none == [iDimensionImportant |-> 0, cSignificantBinCount |-> 0,
               significantDirection |-> MONOTONE_NONE, lastDimensionLeavesMax |-> 0]
  IN IF ~p.bLeavesMax \/ pTerm.cRealDimensions = 0 THEN none
     ELSE AnalyzeDimensions(pTerm, p, 0, none)

\* gainAvg += gain in doubles
GainPlus(a, b) ==
  IF a = NonFinite \/ b = NonFinite THEN NonFinite
  ELSE IF a + b > DoubleMax THEN NonFinite
  ELSE a + b

\* multiple * 0.5
Half(v) == IF v = NonFinite THEN NonFinite ELSE v \div 2

\* Tensor::MultiplyAndCheckForIssues: scale the meaningful scores, report a non-finite one
MultiplyAndCheckForIssues(t, v) ==
  LET r == Multiply(t, v) IN
  [bBad |-> \E j \in 1..CountValues(r) : r.m_aValues[j] \in {NonFinite, NaN}, t |-> r]

\* seeded fault: every lane of the last subset is given the counts and weights
ConvertAddBinsEveryLane(c, iBag, iSubset, bParallelBins) ==
  [i \in 1..(IF bParallelBins THEN c.cSIMDPack ELSE 1) |->
     Ev("ConvertAddBin", iBag, iSubset, IF iSubset + 1 = c.cSubsets THEN 1 ELSE 0)]

\* the ConvertAddBin calls that follow the bin sums of one subset
ConvertAddBins(c, iBag, iSubset, bParallelBins) ==
  [i \in 1..(IF bParallelBins THEN c.cSIMDPack ELSE 1) |->
     Ev("ConvertAddBin", iBag, iSubset,
        IF iSubset + 1 = c.cSubsets /\ (~bParallelBins \/ i = c.cSIMDPack) THEN 1 ELSE 0)]

Fails(x, e, iBag, iSubset) == x.fail.e = e /\ x.fail.bag = iBag /\ x.fail.subset = iSubset

RECURSIVE SubsetLoop(_, _, _, _, _, _)
\* the inner do-while over the data subsets of one inner bag
SubsetLoop(c, x, cTensorBins, iBag, iSubset, trace) ==
  IF Fails(x, "BinSumsBoosting", iBag, iSubset)
    THEN [error |-> x.fail.error,
          trace |-> Append(trace, Ev("BinSumsBoosting", iBag, iSubset, x.fail.error))]
  ELSE
    LET summed == Append(trace, Ev("BinSumsBoosting", iBag, iSubset, Error_None))
        bParallelBins == c.cSIMDPack # 1 /\ cTensorBins # 1 /\ c.bParallelFits
        converted == summed \o ConvertAddBins(c, iBag, iSubset, bParallelBins)
    IN IF iSubset + 1 = c.cSubsets THEN [error |-> Error_None, trace |-> converted]
       ELSE SubsetLoop(c, x, cTensorBins, iBag, iSubset + 1, converted)

\* what a partitioner leaves in the inner update tensor: one cut on every real
\* dimension that has room for it, and scores counting up from out.first
PartitionWrite(inner, pTerm, out) ==
  WriteSegments(inner,
                [i \in 1..pTerm.cDimensions |->
                   IF 0 <= out.cut /\ out.cut + 2 <= pTerm.acBins[i] THEN <<out.cut>> ELSE <<>>],
                <<out.first, 1>>, 0)

\* BoostZeroDimensional: aUpdateScores[iScore] = updateScore
BoostZeroDimensional(inner, cScores, out) ==
  [inner EXCEPT !.m_aValues =
     [j \in 1..Len(@) |-> IF j <= cScores THEN out.first + (j - 1) ELSE @[j]]]

\* seeded fault: the number of real dimensions is looked at before the RandomSplits flag
BoostPathDimensionsFirst(pTerm, p, cTensorBins) ==
  IF cTensorBins = 1 THEN "BoostZeroDimensional"
  ELSE IF pTerm.cRealDimensions = 1 THEN "BoostSingleDimensional"
  ELSE IF TermBoostFlags_RandomSplits \in p.flags \/ 2 < pTerm.cRealDimensions THEN "BoostRandom"
  ELSE "BoostMultiDimensional"

\* which of the four boosting paths one inner bag takes
BoostPath(pTerm, p, cTensorBins) ==
  IF cTensorBins = 1 THEN "BoostZeroDimensional"
  ELSE IF TermBoostFlags_RandomSplits \in p.flags \/ 2 < pTerm.cRealDimensions THEN "BoostRandom"
  ELSE IF pTerm.cRealDimensions = 1 THEN "BoostSingleDimensional"
  ELSE "BoostMultiDimensional"

\* what one inner bag's boosting path returns: its error, the inner update tensor, its gain
Boosted(error, inner, gain) == [error |-> error, inner |-> inner, gain |-> gain]

\* the partitioner has written the inner update tensor (w), or has run out of memory
Partitioned(w, out) ==
  Boosted(IF w.err THEN Error_OutOfMemory ELSE Error_None, w.t, out.gain)

\* the dispatch of one inner bag to its boosting path
Dispatch(c, inner, p, x, pTerm, cTensorBins, iBag) ==
  IF BoostPath(pTerm, p, cTensorBins) = "BoostZeroDimensional"
    THEN Boosted(Error_None, BoostZeroDimensional(inner, c.cScores, At(x.outputs, iBag)), 0)
  ELSE IF BoostPath(pTerm, p, cTensorBins) = "BoostMultiDimensional" /\ pTerm.cRealDimensions # 2
    THEN Boosted(Error_UnexpectedInternal, inner, 0)
  ELSE IF Fails(x, "Partition", iBag, 0)
    THEN Boosted(x.fail.error, inner, 0)
  ELSE Partitioned(PartitionWrite(inner, pTerm, At(x.outputs, iBag)), At(x.outputs, iBag))

\* seeded fault: the bag loop ends after its first pass
AfterAddOnce(c, p, x, pTerm, cTensorBins, iBag, st, boosted, d, added) ==
  [error |-> IF added.err THEN Error_OutOfMemory ELSE Error_None,
   shell |-> [st.shell EXCEPT !.m_pInnerTermUpdate = d.inner, !.m_pTermUpdate = added.t],
   gainAvg |->
     IF BoostPath(pTerm, p, cTensorBins) = "BoostZeroDimensional" THEN st.gainAvg
     ELSE GainPlus(st.gainAvg, d.gain),
   trace |->
     Append(boosted,
            Ev("Add", iBag, 0,
               [inner |-> d.inner,
                error |-> IF added.err THEN Error_OutOfMemory ELSE Error_None])),
   oom |-> added.oom]

RECURSIVE BagLoop(_, _, _, _, _, _, _)
\* the end of one pass of the bag loop: the inner update has been added into the round
\* update (added); the loop ends on an error or after the last bag
AfterAdd(c, p, x, pTerm, cTensorBins, iBag, st, boosted, d, added) ==
  LET next ==
        [error |-> IF added.err THEN Error_OutOfMemory ELSE Error_None,
         shell |-> [st.shell EXCEPT !.m_pInnerTermUpdate = d.inner,
                                    !.m_pTermUpdate = added.t],
         gainAvg |->
           IF BoostPath(pTerm, p, cTensorBins) = "BoostZeroDimensional" THEN st.gainAvg
           ELSE GainPlus(st.gainAvg, d.gain),
         trace |->
           Append(boosted,
                  Ev("Add", iBag, 0,
                     [inner |-> d.inner,
                      error |-> IF added.err THEN Error_OutOfMemory ELSE Error_None])),
         oom |-> added.oom]
  IN IF added.err \/ iBag + 1 = (IF c.cInnerBags = 0 THEN 1 ELSE c.cInnerBags) THEN next
     ELSE BagLoop(c, p, x, pTerm, cTensorBins, iBag + 1, next)

\* the events of an inner bag up to the return of its boosting path
Entered(p, pTerm, cTensorBins, iBag, st, summed, d) ==
  Append(summed,
         Ev(BoostPath(pTerm, p, cTensorBins), iBag, 0,
            [inner |-> st.shell.m_pInnerTermUpdate, error |-> d.error]))

\* seeded fault: the error of a boosting path is ignored
AfterBoostIgnoreError(c, p, x, pTerm, cTensorBins, iBag, st, summed, d) ==
  AfterAdd(c, p, x, pTerm, cTensorBins, iBag, st,
           Entered(p, pTerm, cTensorBins, iBag, st, summed, d), d,
           Add(st.shell.m_pTermUpdate, d.inner, st.oom))

\* one inner bag after its boosting path returned d
AfterBoost(c, p, x, pTerm, cTensorBins, iBag, st, summed, d) ==
  IF d.error # Error_None
    THEN [st EXCEPT !.error = d.error,
                    !.trace = Entered(p, pTerm, cTensorBins, iBag, st, summed, d)]
  ELSE AfterAdd(c, p, x, pTerm, cTensorBins, iBag, st,
                Entered(p, pTerm, cTensorBins, iBag, st, summed, d), d,
                Add(st.shell.m_pTermUpdate, d.inner, st.oom))

\* seeded fault: the inner update tensor is reset in every pass of the bag loop
AfterBinSumsResetInner(c, p, x, pTerm, cTensorBins, iBag, st, s) ==
  IF s.error # Error_None THEN [st EXCEPT !.error = s.error, !.trace = s.trace]
  ELSE AfterBoost(c, p, x, pTerm, cTensorBins, iBag,
                  [st EXCEPT !.shell.m_pInnerTermUpdate = Reset(@)], s.trace,
                  Dispatch(c, Reset(st.shell.m_pInnerTermUpdate), p, x, pTerm, cTensorBins, iBag))

\* one inner bag after its subsets were summed into the bins (s)
AfterBinSums(c, p, x, pTerm, cTensorBins, iBag, st, s) ==
  IF s.error # Error_None THEN [st EXCEPT !.error = s.error, !.trace = s.trace]
  ELSE AfterBoost(c, p, x, pTerm, cTensorBins, iBag, st, s.trace,
                  Dispatch(c, st.shell.m_pInnerTermUpdate, p, x, pTerm, cTensorBins, iBag))

\* the do-while over the inner bags; st carries the shell, gainAvg, the events so far
\* and the countdown to the failing allocation inside Add
BagLoop(c, p, x, pTerm, cTensorBins, iBag, st) ==
  AfterBinSums(c, p, x, pTerm, cTensorBins, iBag, st,
               SubsetLoop(c, x, cTensorBins, iBag, 0,
                          Append(st.trace, Ev("ZeroMainBins", iBag, 0, cTensorBins))))

\* the successful end of a call: the term index is committed and the gain reported
Exit(p, sh, gainAvg, trace) ==
  Done(Error_None, SetTermIndex(sh, p.indexTerm),
       IF p.bAvgGainOut THEN gainAvg ELSE GainUnwritten,
       Append(trace, Ev("SetTermIndex", 0, 0, p.indexTerm)))

\* *avgGainOut of a call that ends with an error
GainOnError(p) == IF p.bAvgGainOut THEN k_illegalGainDouble ELSE GainUnwritten

\* the events of a call up to the return of MultiplyAndCheckForIssues
Scaled(b, m) ==
  b.trace \o <<Ev("GainCheck", 0, 0, b.gainAvg),
               Ev("MultiplyAndCheckForIssues", 0, 0, IF m.bBad THEN 1 ELSE 0)>>

\* seeded fault: an overflowed gain destroys the update like a poisoned score does
AfterMultiplyResetOnOverflow(p, pTerm, b, m) ==
  IF m.bBad \/ b.gainAvg = NonFinite
    THEN Exit(p, [b.shell EXCEPT
                    !.m_pTermUpdate = Reset(SetCountDimensions(m.t, pTerm.cDimensions))],
              k_illegalGainDouble, Scaled(b, m))
  ELSE Exit(p, [b.shell EXCEPT !.m_pTermUpdate = m.t], b.gainAvg, Scaled(b, m))

\* seeded fault: a poisoned update is reported but not destroyed
AfterMultiplyKeepUpdate(p, pTerm, b, m) ==
  Exit(p, [b.shell EXCEPT !.m_pTermUpdate = m.t],
       IF m.bBad \/ b.gainAvg = NonFinite THEN k_illegalGainDouble ELSE b.gainAvg,
       Scaled(b, m))

\* seeded fault: the summed gain is reported without the test for an overflow
AfterMultiplyRawGain(p, pTerm, b, m) ==
  IF m.bBad
    THEN Exit(p, [b.shell EXCEPT
                    !.m_pTermUpdate = Reset(SetCountDimensions(m.t, pTerm.cDimensions))],
              k_illegalGainDouble, Scaled(b, m))
  ELSE Exit(p, [b.shell EXCEPT !.m_pTermUpdate = m.t], b.gainAvg, Scaled(b, m))

\* the call after the round update was scaled (m): a non-finite score suppresses the update
AfterMultiply(p, pTerm, b, m) ==
  IF m.bBad
    THEN Exit(p, [b.shell EXCEPT
                    !.m_pTermUpdate = Reset(SetCountDimensions(m.t, pTerm.cDimensions))],
              k_illegalGainDouble, Scaled(b, m))
  ELSE Exit(p, [b.shell EXCEPT !.m_pTermUpdate = m.t],
            IF b.gainAvg = NonFinite THEN k_illegalGainDouble ELSE b.gainAvg,
            Scaled(b, m))

\* the call after the bag loop returned b
AfterBagLoop(c, p, pTerm, b) ==
  IF b.error # Error_None THEN Done(b.error, b.shell, GainOnError(p), b.trace)
  ELSE AfterMultiply(p, pTerm, b,
                     MultiplyAndCheckForIssues(
                       b.shell.m_pTermUpdate,
                       IF c.cScores = 2 THEN Half(p.learningRate) ELSE p.learningRate))

\* cTensorBins collapses to 1 when no dimension may be split or a pair is monotone
CollapsedBins(pTerm, a) ==
  IF \/ a.lastDimensionLeavesMax = 0
     \/ (pTerm.cRealDimensions # 1 /\ a.significantDirection # MONOTONE_NONE)
    THEN 1
  ELSE pTerm.cTensorBins

\* the call after the round update tensor was cleared
AfterClear(c, p, x, pTerm, cleared) ==
  IF c.cSamples = 0 THEN Exit(p, cleared, 0, <<>>)
  ELSE IF ~p.bRng /\ x.rng # Error_None THEN Done(x.rng, cleared, GainOnError(p), <<>>)
  ELSE AfterBagLoop(
         c, p, pTerm,
         BagLoop(c, p, x, pTerm, CollapsedBins(pTerm, Analysis(pTerm, p)), 0,
                 [error |-> Error_None,
                  shell |-> [cleared EXCEPT
                               !.m_pInnerTermUpdate =
                                 Reset(SetCountDimensions(@, pTerm.cDimensions))],
                  gainAvg |-> 0, trace |-> <<>>, oom |-> x.addOom]))

\* seeded fault: the round update tensor is cleared before the test for a term without bins
AfterCheckParamsClearFirst(c, p, x, pTerm, chk) ==
  IF chk.error # Error_None THEN Done(chk.error, chk.shell, GainOnError(p), <<>>)
  ELSE IF c.cScores = 0 THEN Exit(p, chk.shell, 0, <<>>)
  ELSE IF pTerm.cTensorBins = 0
    THEN Exit(p, [chk.shell EXCEPT
                    !.m_pTermUpdate = Reset(SetCountDimensions(@, pTerm.cDimensions))],
              0, <<>>)
  ELSE AfterClear(c, p, x, pTerm,
                  [chk.shell EXCEPT
                     !.m_pTermUpdate = Reset(SetCountDimensions(@, pTerm.cDimensions))])

\* the call after its parameters were checked (chk)
AfterCheckParams(c, p, x, pTerm, chk) ==
  IF chk.error # Error_None THEN Done(chk.error, chk.shell, GainOnError(p), <<>>)
  ELSE IF c.cScores = 0 THEN Exit(p, chk.shell, 0, <<>>)
  ELSE IF pTerm.cTensorBins = 0 THEN Exit(p, chk.shell, 0, <<>>)
  ELSE AfterClear(c, p, x, pTerm,
                  [chk.shell EXCEPT
                     !.m_pTermUpdate = Reset(SetCountDimensions(@, pTerm.cDimensions))])

\* the whole call; pTerm is the term the call reads at indexTerm
GenerateTermUpdate(c, sh, p, x, pTerm) ==
  AfterCheckParams(c, p, x, pTerm, CheckParams(c, sh, p))

(***************************************************************************)
(* The callers of GenerateTermUpdate: parameters and what the kernels and  *)
(* partitioners do during the call.                                        *)
(***************************************************************************)
BaseParams(indexTerm) ==
  [bBoosterHandle |-> TRUE, indexTerm |-> indexTerm, flags |-> {},
   bLeavesMax |-> TRUE, leavesMax |-> [j \in 1..MaxTermDims |-> MaxBins],
   bDirection |-> FALSE, direction |-> [j \in 1..MaxTermDims |-> MONOTONE_NONE],
   learningRate |-> 2, bAvgGainOut |-> TRUE, bRng |-> TRUE]

RandomParams(indexTerm) ==
  [BaseParams(indexTerm) EXCEPT !.flags = {TermBoostFlags_RandomSplits}]

ParamVariants(indexTerm) ==
  {BaseParams(indexTerm),
   RandomParams(indexTerm),
   [BaseParams(indexTerm) EXCEPT !.bLeavesMax = FALSE],
   [BaseParams(indexTerm) EXCEPT !.leavesMax = [j \in 1..MaxTermDims |-> 1]],
   [BaseParams(indexTerm) EXCEPT !.leavesMax = [j \in 1..MaxTermDims |-> IF j = 1 THEN MaxBins ELSE 1]],
   [BaseParams(indexTerm) EXCEPT !.leavesMax = [j \in 1..MaxTermDims |-> IF j = 1 THEN 1 ELSE MaxBins]],
   [BaseParams(indexTerm) EXCEPT !.leavesMax = [j \in 1..MaxTermDims |-> IF j = 2 THEN MaxBins ELSE 1]],
   [BaseParams(indexTerm) EXCEPT !.bDirection = TRUE, !.direction = [j \in 1..MaxTermDims |-> 1]],
   [BaseParams(indexTerm) EXCEPT !.bDirection = TRUE,
      !.direction = [j \in 1..MaxTermDims |-> IF j = 2 THEN 1 ELSE MONOTONE_NONE]],
   [BaseParams(indexTerm) EXCEPT !.learningRate = NonFinite],
   [BaseParams(indexTerm) EXCEPT !.bAvgGainOut = FALSE]}

Outputs(gain) ==
  <<[cut |-> 0, first |-> 1, gain |-> gain], [cut |-> MaxBins - 2, first |-> 2, gain |-> gain]>>

BaseOutcome ==
  [fail |-> [e |-> "", bag |-> 0, subset |-> 0, error |-> Error_None],
   outputs |-> Outputs(1), rng |-> Error_None, addOom |-> 0]

Outcomes ==
  {BaseOutcome}
    \cup {[BaseOutcome EXCEPT !.fail = [e |-> "BinSumsBoosting", bag |-> iBag,
                                        subset |-> iSubset, error |-> Error_OutOfMemory]] :
            iBag \in 0..1, iSubset \in 0..1}
    \cup {[BaseOutcome EXCEPT !.fail = [e |-> "Partition", bag |-> iBag,
                                        subset |-> 0, error |-> error]] :
            iBag \in 0..1, error \in {Error_OutOfMemory, Error_UnexpectedInternal}}
    \cup {[BaseOutcome EXCEPT !.outputs = Outputs(gain)] : gain \in {0, DoubleMax, NonFinite}}
    \cup {[BaseOutcome EXCEPT !.addOom = oom] : oom \in 1..2}

\* parameters with the outcomes they meet
Invocations(c) ==
  LET valid == 0..(c.cTerms - 1)
      all == (0 - 1)..c.cTerms
  IN ((UNION {ParamVariants(i) : i \in valid}
         \cup {[BaseParams(i) EXCEPT !.bBoosterHandle = b] : i \in all, b \in BOOLEAN})
        \X {BaseOutcome})
       \cup ({BaseParams(i) : i \in valid} \X Outcomes)
       \cup ({[BaseParams(i) EXCEPT !.bRng = FALSE] : i \in valid}
               \X {[BaseOutcome EXCEPT !.rng = error] :
                     error \in {Error_None, Error_OutOfMemory, Error_UnexpectedInternal}})

(***************************************************************************)
(* The tensor as a state machine: one action per member function.          *)
(***************************************************************************)
\* apply result r of operation name to the tensor and record the call
Record(name, a, from, r, oomIn) ==
  /\ tensor' = r.t
  /\ rhs' = from
  /\ op' = name
  /\ args' = a
  /\ err' = r.err
  /\ oomed' = (oomIn > 0 /\ r.oom = 0)
  /\ pre' = tensor
  /\ nOps' = nOps + 1
  /\ UNCHANGED boostVars

Ready == nOps < MaxOps /\ tensor # Nullptr

\* no call has been made on the booster
NoCall ==
  [p |-> BaseParams(0), error |-> "", avgGainOut |-> GainUnwritten, trace |-> <<>>,
   shell |-> CreateShell(BaseCore)]

\* the booster while the tensor alone is exercised
BoostIdle ==
  /\ core = BaseCore
  /\ shell = CreateShell(BaseCore)
  /\ call = NoCall
  /\ nCalls = 0

\* the tensor while the booster alone is exercised
TensorIdle ==
  /\ tensor = Nullptr
  /\ rhs = Nullptr
  /\ op = ""
  /\ args = <<>>
  /\ err = FALSE
  /\ oomed = FALSE
  /\ pre = Nullptr
  /\ nOps = 0

TensorInit ==
  /\ \E cDimensionsMax \in 0..MaxDims :
       \E cVectorLength \in VectorLengths : tensor = Allocate(cDimensionsMax, cVectorLength)
  /\ rhs = Nullptr
  /\ op = "Allocate"
  /\ args = <<>>
  /\ err = (tensor = Nullptr)
  /\ oomed = FALSE
  /\ pre = Nullptr
  /\ nOps = 0
  /\ BoostIdle

SetCountDimensionsOp ==
  /\ Ready
  /\ \E cDimensions \in 0..tensor.m_cDimensionsMax :
       /\ cDimensions # tensor.m_cDimensions
       /\ Record("SetCountDimensions", <<cDimensions>>, Nullptr,
                 Res(FALSE, SetCountDimensions(tensor, cDimensions), 0), 0)

ResetOp ==
  /\ Ready
  /\ Record("Reset", <<>>, Nullptr, Res(FALSE, Reset(tensor), 0), 0)

SetCountDivisionsOp ==
  /\ Ready
  /\ \E iDimension \in 0..(tensor.m_cDimensions - 1) :
       \E cDivisions \in {MaxBins - 1, OverflowDivisions} :
         \E oom \in 0..1 :
           /\ ~tensor.m_bExpanded \/ cDivisions <= Dim(tensor, iDimension).m_cDivisions
           /\ Record("SetCountDivisions", <<iDimension, cDivisions>>, Nullptr,
                     SetCountDivisions(tensor, iDimension, cDivisions, oom), oom)

EnsureValueCapacityOp ==
  /\ Ready
  /\ \E cSegments \in SegmentCounts :
       \E oom \in 0..1 :
         LET cValues == tensor.m_cVectorLength * cSegments IN
         /\ ~tensor.m_bExpanded \/ cValues <= tensor.m_cValueCapacity
         /\ Record("EnsureValueCapacity", <<cValues>>, Nullptr,
                   EnsureValueCapacity(tensor, cValues, oom), oom)

WriteSegmentsOp ==
  /\ Ready
  /\ ~tensor.m_bExpanded
  /\ \E aaDivisions \in TensorShapes(tensor.m_cDimensions) :
       Record("WriteSegments", aaDivisions, Nullptr,
              WriteSegments(tensor, aaDivisions, <<1, 1>>, 0), 0)

\* from fits into t without growing it (an expanded tensor must not grow)
FitsInto(from, t) ==
  /\ \A i \in 1..t.m_cDimensions :
       from.m_aDimensions[i].m_cDivisions <= t.m_aDimensions[i].m_cDivisionCapacity
  /\ CountValues(from) <= t.m_cValueCapacity

CopyOp(wide) ==
  /\ Ready
  /\ \E from \in Operands(tensor.m_cDimensions, tensor.m_cVectorLength, wide) :
       \E oom \in (IF wide THEN {0} ELSE 0..1) :
         /\ ~tensor.m_bExpanded \/ FitsInto(from, tensor)
         /\ Record("Copy", <<>>, from, Copy(tensor, from, oom), oom)

\* a newly allocated tensor with the Dmax, L and D of t
FreshLike(t) ==
  SetCountDimensions(Allocate(t.m_cDimensionsMax, t.m_cVectorLength), t.m_cDimensions)

\* the tensor is copied into the fresh tensor, which is the tensor from then on
CopiedInto(fresh, r, oomIn) ==
  /\ tensor' = r.t
  /\ rhs' = tensor
  /\ op' = "CopyToFresh"
  /\ args' = <<>>
  /\ err' = r.err
  /\ oomed' = (oomIn > 0 /\ r.oom = 0)
  /\ pre' = fresh
  /\ nOps' = nOps + 1
  /\ UNCHANGED boostVars

CopyToFreshOp ==
  /\ Ready
  /\ WellFormed(tensor)
  /\ \E oom \in 0..1 :
       CopiedInto(FreshLike(tensor), Copy(FreshLike(tensor), tensor, oom), oom)

MultiplyOp ==
  /\ Ready
  /\ WellFormed(tensor)
  /\ \E v \in Multipliers :
       Record("Multiply", <<v>>, Nullptr, Res(FALSE, Multiply(tensor, v), 0), 0)

ExpandOp ==
  /\ Ready
  /\ \E cBins \in BinCounts :
       \E oom \in Ooms :
         LET acValuesPerDimension == [i \in 1..tensor.m_cDimensions |-> cBins] IN
         /\ ExpandContract(tensor, acValuesPerDimension)
         /\ Record("Expand", acValuesPerDimension, Nullptr,
                   Expand(tensor, acValuesPerDimension, oom), oom)

AddExpandedOp(wide) ==
  /\ Ready
  /\ WellFormed(tensor)
  /\ tensor.m_bExpanded
  /\ \E from \in Operands(tensor.m_cDimensions, tensor.m_cVectorLength, wide) :
       /\ from.m_bExpanded
       /\ CountValues(from) = CountValues(tensor)
       /\ Record("AddExpanded", <<>>, from,
                 Res(FALSE, AddExpanded(tensor, from.m_aValues), 0), 0)

\* the caller contract of Add: both tensors readable, and an expanded tensor
\* already holds every division of the operand
AddContract(t, from) ==
  /\ WellFormed(t)
  /\ WellFormed(from)
  /\ t.m_cDimensions = from.m_cDimensions
  /\ t.m_cVectorLength = from.m_cVectorLength
  /\ t.m_bExpanded =>
       \A i \in 1..t.m_cDimensions :
         \A j \in 1..from.m_aDimensions[i].m_cDivisions :
           \E k \in 1..t.m_aDimensions[i].m_cDivisions :
             t.m_aDimensions[i].m_aDivisions[k] = from.m_aDimensions[i].m_aDivisions[j]

AddOp(wide) ==
  /\ Ready
  /\ \E from \in Operands(tensor.m_cDimensions, tensor.m_cVectorLength, wide) :
       \E oom \in (IF wide THEN {0} ELSE Ooms) :
         /\ AddContract(tensor, from)
         /\ Record("Add", <<>>, from, Add(tensor, from, oom), oom)

Init == TensorInit

Next ==
  \/ SetCountDimensionsOp
  \/ ResetOp
  \/ SetCountDivisionsOp
  \/ EnsureValueCapacityOp
  \/ WriteSegmentsOp
  \/ CopyOp(FALSE)
  \/ CopyToFreshOp
  \/ MultiplyOp
  \/ ExpandOp
  \/ AddExpandedOp(FALSE)
  \/ AddOp(FALSE)

Spec == Init /\ [][Next]_vars

(***************************************************************************)
(* Single operations on tensors written in the wider coordinate space.     *)
(***************************************************************************)
WideTensors ==
  UNION {LET w == Written(cDimensions, cVectorLength, WideShapes(cDimensions), ScorePatterns)
         IN w \cup Expanded(w, MaxBins) \cup Expanded(w, WideBins) :
           cDimensions \in 0..MaxDims, cVectorLength \in 1..MaxVectorLength}

InitAlgebra ==
  /\ tensor \in WideTensors
  /\ rhs = Nullptr
  /\ op = "WriteSegments"
  /\ args = <<>>
  /\ err = FALSE
  /\ oomed = FALSE
  /\ pre = Nullptr
  /\ nOps = MaxOps - 1
  /\ BoostIdle

NextAlgebra ==
  \/ CopyOp(TRUE)
  \/ MultiplyOp
  \/ ExpandOp
  \/ AddExpandedOp(TRUE)
  \/ AddOp(TRUE)

SpecAlgebra == InitAlgebra /\ [][NextAlgebra]_vars

(***************************************************************************)
(* The booster as a state machine: calls of GenerateTermUpdate.            *)
(***************************************************************************)
InitBoost ==
  /\ core \in Cores
  /\ shell = CreateShell(core)
  /\ call = [NoCall EXCEPT !.shell = CreateShell(core)]
  /\ nCalls = 0
  /\ TensorIdle

\* the booster and the caller after a call with parameters p returned r
Returned(p, r) ==
  /\ shell' = r.shell
  /\ call' = [p |-> p, error |-> r.error, avgGainOut |-> r.avgGainOut,
              trace |-> r.trace, shell |-> shell]
  /\ nCalls' = nCalls + 1

GenerateTermUpdateCall ==
  /\ nCalls < MaxCalls
  /\ \E inv \in Invocations(core) :
       \E pTerm \in TermAt(core, inv[1].indexTerm) :
         Returned(inv[1], GenerateTermUpdate(core, shell, inv[1], inv[2], pTerm))
  /\ UNCHANGED core
  /\ UNCHANGED tensorVars

NextBoost == GenerateTermUpdateCall

SpecBoost == InitBoost /\ [][NextBoost]_vars

(***************************************************************************)
(* Vocabulary of the properties.  Axes are numbered from 1 here, segments  *)
(* and cells from 0.                                                       *)
(***************************************************************************)
\* the K_i divisions of axis i
Divisions(t, i) ==
  [j \in 1..t.m_aDimensions[i].m_cDivisions |-> t.m_aDimensions[i].m_aDivisions[j]]

DivisionSet(t, i) == {Divisions(t, i)[j] : j \in 1..t.m_aDimensions[i].m_cDivisions}

StrictlyIncreasing(s) == \A j \in 1..Len(s) : \A k \in 1..Len(s) : j < k => s[j] < s[k]

\* the meaningful scores, as far as the value buffer holds them
Scores(t) ==
  [j \in 1..(IF CountValues(t) <= t.m_cValueCapacity THEN CountValues(t) ELSE t.m_cValueCapacity)
     |-> t.m_aValues[j]]

SegmentsPerAxis(t) == [i \in 1..t.m_cDimensions |-> t.m_aDimensions[i].m_cDivisions + 1]

RECURSIVE Stride(_, _)
\* cells between neighbours on axis i when axis 1 varies fastest
Stride(counts, i) == IF i = 1 THEN 1 ELSE Stride(counts, i - 1) * counts[i - 1]

Cells(counts) == 0..(Stride(counts, Len(counts) + 1) - 1)

Coordinate(f, counts, i) == (f \div Stride(counts, i)) % counts[i]

RECURSIVE Offset(_, _, _)
\* the flat index of the cell with coordinates ks
Offset(ks, counts, n) ==
  IF n = 0 THEN 0 ELSE Offset(ks, counts, n - 1) + ks[n] * Stride(counts, n)

\* score l of the segment with coordinates ks of tensor t
ScoreAt(t, ks, l) ==
  At(t.m_aValues, Offset(ks, SegmentsPerAxis(t), t.m_cDimensions) * t.m_cVectorLength + l)

AddSucceeded == op = "Add" /\ ~err

ExpandSucceeded == op = "Expand" /\ ~err /\ ~pre.m_bExpanded

(***************************************************************************)
(* C1 - after a successful A.Add(B) with D >= 1, every axis of A holds     *)
(* exactly the sorted union of the former divisions of A and of B on that  *)
(* axis: strictly increasing, without duplicates, K_i the size of the      *)
(* union.                                                                  *)
(***************************************************************************)
C1_AddUnionOfDivisions ==
  (AddSucceeded /\ pre.m_cDimensions >= 1) =>
    \A i \in 1..tensor.m_cDimensions :
      /\ StrictlyIncreasing(Divisions(tensor, i))
      /\ DivisionSet(tensor, i) = DivisionSet(pre, i) \cup DivisionSet(rhs, i)
      /\ tensor.m_aDimensions[i].m_cDivisions =
           Cardinality(DivisionSet(pre, i) \cup DivisionSet(rhs, i))

\* an Add that interleaves: an axis where both operands had a division the other lacked
C1_Witness ==
  /\ AddSucceeded
  /\ pre.m_cDimensions = MaxDims
  /\ \E i \in 1..pre.m_cDimensions :
       /\ DivisionSet(pre, i) \ DivisionSet(rhs, i) # {}
       /\ DivisionSet(rhs, i) \ DivisionSet(pre, i) # {}
       /\ tensor.m_aDimensions[i].m_cDivisions = MaxDivisions

(***************************************************************************)
(* C2 - after a successful A.Add(B), the score vector of every segment of  *)
(* the new grid is the component-wise sum of the score vectors of the      *)
(* former A segment and of the B segment that contain it (for D = 0 the    *)
(* element-wise sum of the L scores).  Scenario B: A divisions [2], values *)
(* [10,20], B divisions [5], values [1,2] give divisions [2,5], values     *)
(* [11,21,22].                                                             *)
(***************************************************************************)
\* the segment of o on axis i that contains segment k of the new grid
ContainingSegment(o, i, k) ==
  Cardinality({d \in DivisionSet(o, i) : k >= 1 /\ d <= Divisions(tensor, i)[k]})

ScenarioB ==
  /\ AddSucceeded
  /\ pre.m_cDimensions = 1 /\ pre.m_cVectorLength = 1 /\ ~pre.m_bExpanded
  /\ Divisions(pre, 1) = <<2>> /\ Scores(pre) = <<10, 20>>
  /\ Divisions(rhs, 1) = <<5>> /\ Scores(rhs) = <<1, 2>>

C2_AddSumsContainingSegments ==
  /\ AddSucceeded =>
       \A f \in Cells(SegmentsPerAxis(tensor)) :
         \A l \in 0..(tensor.m_cVectorLength - 1) :
           LET ks == [i \in 1..tensor.m_cDimensions |-> Coordinate(f, SegmentsPerAxis(tensor), i)]
               ks1 == [i \in 1..tensor.m_cDimensions |-> ContainingSegment(pre, i, ks[i])]
               ks2 == [i \in 1..tensor.m_cDimensions |-> ContainingSegment(rhs, i, ks[i])]
           IN ScoreAt(tensor, ks, l) = ScoreAt(pre, ks1, l) + ScoreAt(rhs, ks2, l)
  /\ ScenarioB => (Divisions(tensor, 1) = <<2, 5>> /\ Scores(tensor) = <<11, 21, 22>>)

C2_Witness == ScenarioB /\ Scores(tensor) = <<11, 21, 22>>

(***************************************************************************)
(* C3 - Scenario D: D = 2, L = 1, A with divs0 [1], divs1 [] and values    *)
(* [1,2], B with divs0 [], divs1 [3] and values [10,20]: A.Add(B) leaves A *)
(* with divs0 [1], divs1 [3] and the flat values [11,12,21,22], dimension  *)
(* 0 varying fastest.                                                      *)
(***************************************************************************)
ScenarioD ==
  /\ AddSucceeded
  /\ pre.m_cDimensions = 2 /\ pre.m_cVectorLength = 1 /\ ~pre.m_bExpanded
  /\ Divisions(pre, 1) = <<1>> /\ Divisions(pre, 2) = <<>> /\ Scores(pre) = <<1, 2>>
  /\ Divisions(rhs, 1) = <<>> /\ Divisions(rhs, 2) = <<3>> /\ Scores(rhs) = <<10, 20>>

ScenarioC ==
  /\ ExpandSucceeded
  /\ pre.m_cDimensions = 1 /\ pre.m_cVectorLength = 1
  /\ Divisions(pre, 1) = <<1>> /\ Scores(pre) = <<7, 9>>
  /\ args = <<4>>

C4_DivisionEndsSegment ==
  /\ (ExpandSucceeded /\ pre.m_cDimensions = 1) =>
       \A c \in 0..(args[1] - 1) :
         \A l \in 0..(pre.m_cVectorLength - 1) :
           At(tensor.m_aValues, c * pre.m_cVectorLength + l) =
             ScoreAt(pre, <<Cardinality({d \in DivisionSet(pre, 1) : d < c})>>, l)
  /\ ScenarioC =>
       /\ Divisions(tensor, 1) = <<0, 1, 2>>
       /\ Scores(tensor) = <<7, 7, 9, 9>>
       /\ tensor.m_bExpanded

C4_Witness == ScenarioC /\ Len(Scores(tensor)) = 4

\* a division as the coordinate at which the next segment begins
C4_AsStated ==
  /\ (ExpandSucceeded /\ pre.m_cDimensions = 1) =>
       \A c \in 0..(args[1] - 1) :
         \A l \in 0..(pre.m_cVectorLength - 1) :
           At(tensor.m_aValues, c * pre.m_cVectorLength + l) =
             ScoreAt(pre, <<Cardinality({d \in DivisionSet(pre, 1) : d <= c})>>, l)
  /\ ScenarioC =>
       /\ Divisions(tensor, 1) = <<0, 1, 2>>
       /\ Scores(tensor) = <<7, 9, 9, 9>>
       /\ tensor.m_bExpanded

(***************************************************************************)
(* C5 - a successful Expand(bins) of a non-expanded tensor with D >= 1     *)
(* writes into every dense cell (c_1..c_D) the L scores of the source      *)
(* segment whose index j_i on each axis satisfies                          *)
(* div_{i,j_i-1} + 1 <= c_i <= div_{i,j_i} (div_{i,-1} = -1, the last      *)
(* segment running to bins_i - 1), dimension 0 varying fastest.            *)
(***************************************************************************)
\* first and last coordinate of segment j of axis i of the tensor before the call
SegmentFirst(i, j) == IF j = 0 THEN 0 ELSE Divisions(pre, i)[j] + 1

SegmentLast(i, j) ==
  IF j = pre.m_aDimensions[i].m_cDivisions THEN args[i] - 1 ELSE Divisions(pre, i)[j + 1]

\* segment j of axis i covers coordinate c
Covers(i, j, c) == SegmentFirst(i, j) <= c /\ c <= SegmentLast(i, j)

C5_ExpandFillsIntervals ==
  ExpandSucceeded =>
    \A f \in Cells(args) :
      \A l \in 0..(pre.m_cVectorLength - 1) :
        LET cs == [i \in 1..pre.m_cDimensions |-> Coordinate(f, args, i)] IN
        /\ \A i \in 1..pre.m_cDimensions :
             \E j \in 0..pre.m_aDimensions[i].m_cDivisions : Covers(i, j, cs[i])
        /\ LET js == [i \in 1..pre.m_cDimensions |->
                       CHOOSE j \in 0..pre.m_aDimensions[i].m_cDivisions : Covers(i, j, cs[i])]
           IN At(tensor.m_aValues, f * pre.m_cVectorLength + l) = ScoreAt(pre, js, l)

\* a two-dimensional Expand in which an inner segment spreads over several cells
C5_Witness ==
  /\ ExpandSucceeded
  /\ pre.m_cDimensions = MaxDims
  /\ \E i \in 1..pre.m_cDimensions :
       /\ pre.m_aDimensions[i].m_cDivisions >= 1
       /\ Divisions(pre, i)[1] >= 1
  /\ CountValues(tensor) > CountValues(pre)

(***************************************************************************)
(* C6 - after Reset every active K_i is 0, the L scores of the single      *)
(* segment are zero and expanded is false, so a tensor whose D is Dmax     *)
(* when Reset runs compares IsEqual to a freshly Allocate-d tensor with    *)
(* the same Dmax and L, whatever operations preceded the Reset.  The       *)
(* division counts of the axes at or beyond D are left as they were.       *)
(***************************************************************************)
ResetCleared(cAxes) ==
  /\ \A i \in 1..cAxes : tensor.m_aDimensions[i].m_cDivisions = 0
  /\ \A j \in 1..tensor.m_cVectorLength : tensor.m_aValues[j] = 0
  /\ ~tensor.m_bExpanded
  /\ tensor.m_cDimensions = tensor.m_cDimensionsMax =>
       IsEqual(tensor, Allocate(tensor.m_cDimensionsMax, tensor.m_cVectorLength))

C6_ResetClearsActiveAxes ==
  op = "Reset" =>
    /\ ResetCleared(tensor.m_cDimensions)
    /\ \A i \in (tensor.m_cDimensions + 1)..tensor.m_cDimensionsMax :
         tensor.m_aDimensions[i] = pre.m_aDimensions[i]

\* a Reset of a segmented tensor with D = Dmax
C6_Witness ==
  /\ op = "Reset"
  /\ tensor.m_cDimensions = tensor.m_cDimensionsMax
  /\ \E i \in 1..pre.m_cDimensions : pre.m_aDimensions[i].m_cDivisions > 0
  /\ CountValues(tensor) = tensor.m_cVectorLength

\* every K_i, active or not
C6_AsStated == op = "Reset" => ResetCleared(tensor.m_cDimensionsMax)

(***************************************************************************)
(* C7 - after a successful Allocate, Reset, Copy, Expand or Add the        *)
(* L * product over the active axes of (K_i + 1) meaningful scores lie     *)
(* inside the values capacity and are all written; a successful            *)
(* EnsureValueCapacity, Multiply or AddExpanded keeps the count and keeps  *)
(* it inside the capacity.  SetCountDimensions and SetCountDivisions       *)
(* change the count without touching the values.                           *)
(***************************************************************************)
WithinCapacity(t) == CountValues(t) <= t.m_cValueCapacity

Observable(t) ==
  [cDimensions |-> t.m_cDimensions,
   cDivisions |-> [i \in 1..t.m_cDimensionsMax |-> t.m_aDimensions[i].m_cDivisions],
   divisions |->
     [i \in 1..t.m_cDimensionsMax |->
        [j \in 1..(IF t.m_aDimensions[i].m_cDivisions <= t.m_aDimensions[i].m_cDivisionCapacity
                     THEN t.m_aDimensions[i].m_cDivisions
                     ELSE t.m_aDimensions[i].m_cDivisionCapacity)
           |-> t.m_aDimensions[i].m_aDivisions[j]]],
   values |-> Scores(t),
   cValueCapacity |-> t.m_cValueCapacity,
   cDivisionCapacity |-> [i \in 1..t.m_cDimensionsMax |-> t.m_aDimensions[i].m_cDivisionCapacity],
   bExpanded |-> t.m_bExpanded]

\* the operation failed although no allocation did
Overflowed == err /\ ~oomed

\* growing the value buffer of the former tensor to cValues scores overflows
ValueGrowthOverflows(cValues) ==
  /\ pre.m_cValueCapacity < cValues
  /\ \/ IsAddError(cValues, cValues \div 2)
     \/ IsMultiplyError(sizeofTValues, cValues + (cValues \div 2))

\* the new-size guard of Expand or Add fired
NewSizeOverflowed ==
  LET cNewValues ==
        IF op = "Expand" THEN CountNewValues(args, pre.m_cDimensions)
        ELSE AddCountNewValues(AddStack(pre, rhs), pre.m_cDimensions)
  IN \/ IsMultiplyError(cNewValues, pre.m_cVectorLength)
     \/ ValueGrowthOverflows(cNewValues * pre.m_cVectorLength)

C8_OverflowBeforeRewriteKeepsState ==
  Overflowed =>
    /\ op = "Allocate" => tensor = Nullptr
    /\ op \in {"SetCountDivisions", "EnsureValueCapacity"} =>
         Observable(tensor) = Observable(pre)
    /\ (op \in {"Expand", "Add"} /\ NewSizeOverflowed) =>
         Observable(tensor) = Observable(pre)
    /\ (op \in {"Expand", "Add"} /\ ~NewSizeOverflowed) =>
         /\ tensor.m_cDimensions = pre.m_cDimensions
         /\ tensor.m_cValueCapacity >= pre.m_cValueCapacity
         /\ \E i \in 1..pre.m_cDimensions :
              tensor.m_aDimensions[i].m_cDivisions = pre.m_aDimensions[i].m_cDivisions

\* the new-size guard of Add fires on a segmented tensor
C8_Witness ==
  /\ Overflowed
  /\ op = "Add"
  /\ NewSizeOverflowed
  /\ CountValues(pre) > pre.m_cVectorLength

\* identical state after every reported overflow
C8_AsStated ==
  Overflowed =>
    /\ op = "Allocate" => tensor = Nullptr
    /\ op \in {"SetCountDivisions", "EnsureValueCapacity", "Expand", "Add"} =>
         Observable(tensor) = Observable(pre)

(***************************************************************************)
(* Parameter errors of GenerateTermUpdate.                                 *)
(***************************************************************************)
Called == nCalls > 0

\* the call was made with a null handle or with a term index out of range
BadParams ==
  \/ ~call.p.bBoosterHandle
  \/ call.p.indexTerm < 0
  \/ core.cTerms <= call.p.indexTerm

\* the steps of a call that read the bins, partition them or commit the term index
WorkEvents ==
  {"ZeroMainBins", "BinSumsBoosting", "ConvertAddBin", "BoostZeroDimensional",
   "BoostSingleDimensional", "BoostMultiDimensional", "BoostRandom", "Add",
   "GainCheck", "MultiplyAndCheckForIssues", "SetTermIndex"}

Reached(e) == \E i \in 1..Len(call.trace) : call.trace[i].e = e

\* the round update tensor holds a committed update with a cut
HoldsUpdate(t) == t # Nullptr /\ \E i \in 1..t.m_cDimensions : Dim(t, i - 1).m_cDivisions > 0

(* C9: when GenerateTermUpdate returns IllegalParamVal, the round update   *)
(* tensor and the inner update tensor are exactly as they were before the  *)
(* call; the shell's current term index is as before for a null booster    *)
(* handle, and is the illegal index for a term index out of range.          *)
C9_ParamErrorKeepsTensors ==
  (Called /\ call.error = Error_IllegalParamVal) =>
    /\ shell.m_pTermUpdate = call.shell.m_pTermUpdate
    /\ shell.m_pInnerTermUpdate = call.shell.m_pInnerTermUpdate
    /\ shell.m_iTerm =
         IF call.p.bBoosterHandle THEN k_illegalTermIndex ELSE call.shell.m_iTerm

\* a term index out of range is refused after an update for a valid term was committed
C9_Witness ==
  /\ Called
  /\ call.error = Error_IllegalParamVal
  /\ call.p.bBoosterHandle
  /\ call.shell.m_iTerm # k_illegalTermIndex
  /\ HoldsUpdate(call.shell.m_pTermUpdate)

\* C9 as the specification words it: the current term index too is as before the call
C9_AsStated ==
  (Called /\ call.error = Error_IllegalParamVal) =>
    /\ shell.m_iTerm = call.shell.m_iTerm
    /\ shell.m_pTermUpdate = call.shell.m_pTermUpdate
    /\ shell.m_pInnerTermUpdate = call.shell.m_pInnerTermUpdate

(* C10: GenerateTermUpdate returns IllegalParamVal when the booster handle *)
(* is null, when the term index is negative or when it is at least the     *)
(* number of terms, and such a call reaches neither the bin summation, nor *)
(* a partitioner, nor the commit of the term index.                        *)
C10_BadParamsRejected ==
  (Called /\ BadParams) =>
    /\ call.error = Error_IllegalParamVal
    /\ \A e \in WorkEvents : ~Reached(e)

\* the term index equal to the number of terms is refused
C10_Witness ==
  /\ Called
  /\ call.p.bBoosterHandle
  /\ call.p.indexTerm = core.cTerms
  /\ call.error = Error_IllegalParamVal
  /\ call.trace = <<>>

(***************************************************************************)
(* The end of a GenerateTermUpdate call.                                   *)
(***************************************************************************)
\* the term of the call, for a term index in range
CallTerm == core.aTerms[call.p.indexTerm + 1]

\* event i of the call is step e
IsStep(i, e) == call.trace[i].e = e

Steps == 1..Len(call.trace)

\* scaling the round update left a NaN or an infinite score
Poisoned == Called /\ \E i \in Steps : IsStep(i, "MultiplyAndCheckForIssues") /\ call.trace[i].arg = 1

\* t is empty on its first cAxes axes: no division, L zero scores, not expanded
EmptyUpdate(t, cAxes) ==
  /\ \A i \in 1..cAxes : t.m_aDimensions[i].m_cDivisions = 0
  /\ \A j \in 1..t.m_cVectorLength : t.m_aValues[j] = 0
  /\ ~t.m_bExpanded

(* C11: when scaling the round update tensor by the final multiplier       *)
(* produces a NaN or infinite score, GenerateTermUpdate returns None, the  *)
(* round update tensor has the term's dimension count, no division on any  *)
(* of these active axes and L zero scores, avgGainOut (when non-null)      *)
(* holds the illegal gain and the current term index is the term index.    *)
(* The axes beyond the term's dimension count keep what they held.         *)
C11_PoisonedUpdateSuppressed ==
  Poisoned =>
    /\ call.error = Error_None
    /\ shell.m_pTermUpdate.m_cDimensions = CallTerm.cDimensions
    /\ EmptyUpdate(shell.m_pTermUpdate, CallTerm.cDimensions)
    /\ \A i \in (CallTerm.cDimensions + 1)..MaxTermDims :
         shell.m_pTermUpdate.m_aDimensions[i] = call.shell.m_pTermUpdate.m_aDimensions[i]
    /\ call.p.bAvgGainOut => call.avgGainOut = k_illegalGainDouble
    /\ shell.m_iTerm = call.p.indexTerm

\* a poisoned update of a term whose round update had been cut by the inner bags
C11_Witness ==
  /\ Poisoned
  /\ call.p.bAvgGainOut
  /\ \E i \in Steps :
       /\ IsStep(i, "Add")
       /\ \E k \in 1..CallTerm.cDimensions :
            call.trace[i].arg.inner.m_aDimensions[k].m_cDivisions > 0

\* C11 as the specification words it: every K_i is 0, on the inactive axes too
C11_AsStated ==
  Poisoned =>
    /\ call.error = Error_None
    /\ EmptyUpdate(shell.m_pTermUpdate, MaxTermDims)
    /\ call.p.bAvgGainOut => call.avgGainOut = k_illegalGainDouble
    /\ shell.m_iTerm = call.p.indexTerm

\* the gain accumulated over the inner bags exceeded the largest finite double
GainOverflowed == Called /\ \E i \in Steps : IsStep(i, "GainCheck") /\ call.trace[i].arg = NonFinite

\* every scaled score was finite
ScoresFinite == \E i \in Steps : IsStep(i, "MultiplyAndCheckForIssues") /\ call.trace[i].arg = 0

RECURSIVE SumOfInner(_, _)
\* t with the inner update of every Add of the call from event i on added into it
SumOfInner(t, i) ==
  IF i > Len(call.trace) THEN t
  ELSE IF IsStep(i, "Add") THEN SumOfInner(Add(t, call.trace[i].arg.inner, 0).t, i + 1)
  ELSE SumOfInner(t, i + 1)

\* the multiplier of the scaling: halved for exactly two scores
FinalMultiple == IF core.cScores = 2 THEN Half(call.p.learningRate) ELSE call.p.learningRate

\* the sum of the call's inner updates, scaled
ScaledSum ==
  Multiply(SumOfInner(Reset(SetCountDimensions(call.shell.m_pTermUpdate, CallTerm.cDimensions)), 1),
           FinalMultiple)

(* C12: when the gain accumulated over the inner bags exceeds the largest  *)
(* finite double while every scaled score is finite, GenerateTermUpdate    *)
(* returns None, the round update tensor is the scaled sum of the inner    *)
(* updates (it is not reset) and avgGainOut holds the illegal gain.        *)
C12_GainOverflowKeepsUpdate ==
  (GainOverflowed /\ ScoresFinite) =>
    /\ call.error = Error_None
    /\ IsEqual(shell.m_pTermUpdate, ScaledSum)
    /\ \E j \in 1..CountValues(shell.m_pTermUpdate) : shell.m_pTermUpdate.m_aValues[j] # 0
    /\ call.p.bAvgGainOut => call.avgGainOut = k_illegalGainDouble

\* the gains of two inner bags, each finite, overflow together
C12_Witness ==
  /\ GainOverflowed
  /\ ScoresFinite
  /\ core.cInnerBags = 2
  /\ HoldsUpdate(shell.m_pTermUpdate)
  /\ call.avgGainOut = k_illegalGainDouble

(***************************************************************************)
(* The inner bag loop.                                                     *)
(***************************************************************************)
Paths == {"BoostZeroDimensional", "BoostRandom", "BoostSingleDimensional", "BoostMultiDimensional"}

\* event i is the run of a boosting path
IsPath(i) == call.trace[i].e \in Paths

(* C13: the inner update tensor is Reset once in a call, before the first  *)
(* inner bag: the boosting path of bag 0 starts from the empty tensor (the *)
(* term's dimension count, no division on the active axes, L zero scores), *)
(* and the path of every later bag receives the tensor exactly as it was   *)
(* added into the round update for the bag before; the loop does not reset *)
(* it between bags.                                                        *)
C13_InnerResetOncePerCall ==
  Called =>
    \A i \in Steps :
      IsPath(i) =>
        IF call.trace[i].bag = 0
          THEN /\ call.trace[i].arg.inner.m_cDimensions = CallTerm.cDimensions
               /\ EmptyUpdate(call.trace[i].arg.inner, CallTerm.cDimensions)
        ELSE \E k \in 1..(i - 1) :
               /\ IsStep(k, "Add")
               /\ call.trace[k].bag = call.trace[i].bag - 1
               /\ call.trace[k].arg.inner = call.trace[i].arg.inner

\* the path of the second bag starts from the cut tensor the first bag left
C13_Witness ==
  /\ Called
  /\ \E i \in Steps :
       /\ IsPath(i)
       /\ call.trace[i].bag = 1
       /\ \E k \in 1..CallTerm.cDimensions :
            call.trace[i].arg.inner.m_aDimensions[k].m_cDivisions > 0

\* C13 as the specification words it: the path of every bag starts from the empty tensor
C13_AsStated ==
  Called =>
    \A i \in Steps :
      IsPath(i) => EmptyUpdate(call.trace[i].arg.inner, CallTerm.cDimensions)

\* n: the inner bags of the core, or 1 when it has none
CountInnerBagsAfterZero == IF core.cInnerBags = 0 THEN 1 ELSE core.cInnerBags

\* the inner bags of a call
BagIndexes == 0..(CountInnerBagsAfterZero - 1)

\* the runs of a boosting path for inner bag b
PathsOf(b) == {i \in Steps : IsPath(i) /\ call.trace[i].bag = b}

\* every subset of inner bag b was summed into the bins
Summed(b) ==
  \E i \in Steps :
    /\ IsStep(i, "BinSumsBoosting")
    /\ call.trace[i].bag = b
    /\ call.trace[i].subset + 1 = core.cSubsets
    /\ call.trace[i].arg = Error_None

\* the path the order of the dispatch gives for a bag whose bins number cTensorBins
ChosenPath(cTensorBins) ==
  IF cTensorBins = 1 THEN "BoostZeroDimensional"
  ELSE IF TermBoostFlags_RandomSplits \in call.p.flags THEN "BoostRandom"
  ELSE IF CallTerm.cRealDimensions > 2 THEN "BoostRandom"
  ELSE IF CallTerm.cRealDimensions = 1 THEN "BoostSingleDimensional"
  ELSE "BoostMultiDimensional"

(* C14: an inner bag whose subsets were all summed runs exactly one        *)
(* boosting path (a bag that was not summed runs none), and the path is    *)
(* the first that applies of: 1 tensor bin, BoostZeroDimensional;          *)
(* RandomSplits or more than 2 real dimensions, BoostRandom; 1 real        *)
(* dimension, BoostSingleDimensional; otherwise BoostMultiDimensional,     *)
(* which is entered with exactly 2 real dimensions only.                   *)
C14_OnePathPerBagInOrder ==
  Called =>
    \A b \in BagIndexes :
      /\ Cardinality(PathsOf(b)) = IF Summed(b) THEN 1 ELSE 0
      /\ \A i \in PathsOf(b) :
           /\ \E k \in 1..(i - 1) :
                /\ IsStep(k, "ZeroMainBins")
                /\ call.trace[k].bag = b
                /\ call.trace[i].e = ChosenPath(call.trace[k].arg)
           /\ call.trace[i].e = "BoostMultiDimensional" => CallTerm.cRealDimensions = 2

\* both bags of a call over a pair of features went to BoostMultiDimensional
C14_Witness ==
  /\ Called
  /\ core.cInnerBags = 2
  /\ \A b \in BagIndexes :
       \E i \in PathsOf(b) : call.trace[i].e = "BoostMultiDimensional"

(***************************************************************************)
(* The number of bins of a round.                                          *)
(***************************************************************************)
\* the real dimensions of the term of the call
RealDimensions == {j \in 1..CallTerm.cDimensions : CallTerm.acBins[j] > 1}

\* no real dimension was given a leaves-max of at least 2
NoSplitAllowed ==
  \/ ~call.p.bLeavesMax
  \/ \A j \in RealDimensions : call.p.leavesMax[j] <= 1

\* a real dimension has a monotone direction
MonotoneReal ==
  /\ call.p.bLeavesMax
  /\ call.p.bDirection
  /\ \E j \in RealDimensions : call.p.direction[j] # MONOTONE_NONE

\* no leaves-max of at least 2 was given for the last real dimension
NoSplitOfSignificant ==
  \/ ~call.p.bLeavesMax
  \/ RealDimensions = {}
  \/ \E j \in RealDimensions :
       /\ \A k \in RealDimensions : k <= j
       /\ call.p.leavesMax[j] <= 1

(* C15: the bins of a round are collapsed to 1 exactly when no real        *)
(* dimension was given a leaves-max of at least 2 (leavesMax null, no real *)
(* dimension, or a leaves-max of at most 1 on every real dimension) or     *)
(* when a real dimension has a monotone direction and the number of real   *)
(* dimensions is not 1; otherwise the round uses the term's tensor bins.   *)
C15_CollapseToOneBin ==
  Called =>
    \A i \in Steps :
      IsStep(i, "ZeroMainBins") =>
        call.trace[i].arg =
          IF NoSplitAllowed \/ (MonotoneReal /\ CallTerm.cRealDimensions # 1) THEN 1
          ELSE CallTerm.cTensorBins

\* the last real dimension may not be split, an earlier one may, and the round keeps
\* the term's tensor bins
C15_Witness ==
  /\ Called
  /\ \E i \in Steps :
       /\ IsStep(i, "ZeroMainBins")
       /\ call.trace[i].arg = CallTerm.cTensorBins
       /\ call.trace[i].arg > 1
       /\ NoSplitOfSignificant
       /\ ~NoSplitAllowed

\* C15 as the specification words it: the leaves-max of the significant dimension decides
C15_AsStated ==
  Called =>
    \A i \in Steps :
      IsStep(i, "ZeroMainBins") =>
        call.trace[i].arg =
          IF NoSplitOfSignificant \/ (MonotoneReal /\ CallTerm.cRealDimensions # 1) THEN 1
          ELSE CallTerm.cTensorBins

\* the ConvertAddBin calls of inner bag b
Converts(b) == {i \in Steps : IsStep(i, "ConvertAddBin") /\ call.trace[i].bag = b}

\* the last ConvertAddBin call of the last subset of inner bag b
LastConvert(b, l) ==
  /\ l \in Converts(b)
  /\ \A i \in Converts(b) : i <= l
  /\ call.trace[l].subset + 1 = core.cSubsets

(* C16: among the ConvertAddBin calls of one inner bag, over all subsets   *)
(* and SIMD lanes, only the last call of the last subset is given the      *)
(* counts and weights tensors, and a bag whose subsets were all summed has *)
(* exactly one such call; every other call of the bag is given null.       *)
C16_CountsAddedOncePerBag ==
  Called =>
    \A b \in BagIndexes :
      /\ \A i \in Converts(b) : call.trace[i].arg = 1 => LastConvert(b, i)
      /\ Summed(b) =>
           \E l \in Converts(b) : LastConvert(b, l) /\ call.trace[l].arg = 1

\* a bag of two subsets converted lane by lane: four calls, the last with the tensors
C16_Witness ==
  /\ Called
  /\ Summed(0)
  /\ Cardinality(Converts(0)) = 4
  /\ Cardinality({i \in Converts(0) : call.trace[i].arg = 1}) = 1

\* a step of the bag loop: its kind, its inner bag and its subset
LoopStep(kind, iBag, iSubset) == <<kind, iBag, iSubset>>

IsLoopEvent(ev) == ev.e \in {"ZeroMainBins", "BinSumsBoosting", "Add"} \cup Paths

\* the steps of the bag loop that a call took, in the order it took them
LoopSteps ==
  LET evs == SelectSeq(call.trace, IsLoopEvent) IN
  [k \in 1..Len(evs) |->
     LoopStep(IF evs[k].e \in Paths THEN "Partition" ELSE evs[k].e, evs[k].bag, evs[k].subset)]

\* bag after bag: zero the bins, sum every subset, partition, add
OrderedLoop ==
  [k \in 1..(CountInnerBagsAfterZero * (core.cSubsets + 3)) |->
     LET iBag == (k - 1) \div (core.cSubsets + 3)
         q == (k - 1) % (core.cSubsets + 3)
     IN IF q = 0 THEN LoopStep("ZeroMainBins", iBag, 0)
        ELSE IF q <= core.cSubsets THEN LoopStep("BinSumsBoosting", iBag, q - 1)
        ELSE IF q = core.cSubsets + 1 THEN LoopStep("Partition", iBag, 0)
        ELSE LoopStep("Add", iBag, 0)]

(* C17: a successful call with a non-empty training set, at least one      *)
(* score and a term with at least one tensor bin processes the inner bags  *)
(* 0..n-1 in ascending order, and for each bag zeroes the main bins, sums  *)
(* every subset in ascending order, runs the boosting path and then adds   *)
(* the inner update into the round update: one Add per bag, after the      *)
(* bag's path returned and before the next bag's bins are zeroed.          *)
C17_BagLoopOrder ==
  (/\ Called
   /\ call.error = Error_None
   /\ core.cSamples # 0
   /\ core.cScores # 0
   /\ CallTerm.cTensorBins # 0) => LoopSteps = OrderedLoop

\* a successful call over two inner bags
C17_Witness ==
  /\ Called
  /\ call.error = Error_None
  /\ core.cInnerBags = 2
  /\ Len(LoopSteps) = 8
  /\ LoopSteps[8] = LoopStep("Add", 1, 0)

\* C17 as the specification words it: every successful call with a non-empty training set
C17_AsStated ==
  (Called /\ call.error = Error_None /\ core.cSamples # 0) => LoopSteps = OrderedLoop

(***************************************************************************)
(* Errors and early exits.                                                 *)
(***************************************************************************)
\* the error that step i of the call reported to GenerateTermUpdate
ReportedError(i) ==
  IF IsStep(i, "BinSumsBoosting") THEN call.trace[i].arg
  ELSE IF IsPath(i) \/ IsStep(i, "Add") THEN call.trace[i].arg.error
  ELSE Error_None

(* C18: in a call on a booster (a non-null handle), when BinSumsBoosting,  *)
(* a boosting path or the Add of the inner update reports an error, that   *)
(* step is the last of the call: no later subset or bag is processed and   *)
(* the update is not scaled; the call returns that error and leaves the    *)
(* shell's term index at k_illegalTermIndex.  The term index equals        *)
(* indexTerm after a call only when the call returned Error_None.          *)
C18_ErrorsShortCircuit ==
  (Called /\ call.p.bBoosterHandle) =>
    /\ \A i \in Steps :
         ReportedError(i) # Error_None =>
           /\ i = Len(call.trace)
           /\ call.error = ReportedError(i)
           /\ shell.m_iTerm = k_illegalTermIndex
    /\ shell.m_iTerm = call.p.indexTerm => call.error = Error_None

\* the partitioner of the second bag failed after the first bag was added
C18_Witness ==
  /\ Called
  /\ call.error = Error_UnexpectedInternal
  /\ \E i \in Steps :
       /\ IsPath(i)
       /\ call.trace[i].bag = 1
       /\ call.trace[i].arg.error = Error_UnexpectedInternal
       /\ \E k \in 1..(i - 1) : IsStep(k, "Add")

(* C19: a call with a booster and a term index in range, on a core with no *)
(* score or for a term with no tensor bin, returns Error_None, writes gain *)
(* 0 through avgGainOut (when it is not null), sets the shell's term index *)
(* to indexTerm, leaves the round update and the inner update tensors as   *)
(* they were, and runs no bin summation, conversion, partitioner or Add.   *)
C19_EarlyExitTouchesNothing ==
  (Called /\ ~BadParams /\ (core.cScores = 0 \/ CallTerm.cTensorBins = 0)) =>
    /\ call.error = Error_None
    /\ call.avgGainOut = IF call.p.bAvgGainOut THEN 0 ELSE GainUnwritten
    /\ shell.m_iTerm = call.p.indexTerm
    /\ shell.m_pTermUpdate = call.shell.m_pTermUpdate
    /\ shell.m_pInnerTermUpdate = call.shell.m_pInnerTermUpdate
    /\ \A i \in Steps : IsStep(i, "SetTermIndex")

\* a call for the term without bins after a call that left an update with a cut
C19_Witness ==
  /\ Called
  /\ ~BadParams
  /\ core.cScores # 0
  /\ CallTerm.cTensorBins = 0
  /\ HoldsUpdate(shell.m_pTermUpdate)
  /\ shell.m_iTerm = call.p.indexTerm

(***************************************************************************)
(* Copy into a fresh tensor.                                               *)
(***************************************************************************)
\* one of the meaningful scores of t is NaN
HoldsNaN(t) == \E j \in 1..CountValues(t) : t.m_aValues[j] = NaN

\* the same K_i, the same divisions and the same meaningful scores, cell by cell
SameContent(t, other) ==
  /\ t.m_cDimensions = other.m_cDimensions
  /\ \A i \in 1..t.m_cDimensions : Divisions(t, i) = Divisions(other, i)
  /\ \A j \in 1..CountValues(other) : t.m_aValues[j] = other.m_aValues[j]

(* C20: a successful Copy of a tensor T, whose divisions and scores are    *)
(* all written, into a freshly allocated tensor with the same Dmax, L and  *)
(* D gives a tensor with the K_i, the divisions, the meaningful scores and *)
(* the expanded flag of T; IsEqual(T) is true of it when no meaningful     *)
(* score of T is NaN, and false when one is, since IsEqual compares the    *)
(* scores with != and NaN differs from itself.                             *)
C20_CopyFidelity ==
  (op = "CopyToFresh" /\ ~err) =>
    /\ SameContent(tensor, rhs)
    /\ tensor.m_bExpanded = rhs.m_bExpanded
    /\ IsEqual(tensor, rhs) <=> ~HoldsNaN(rhs)

\* an expanded tensor with cuts was copied into a fresh tensor
C20_Witness ==
  /\ op = "CopyToFresh"
  /\ ~err
  /\ rhs.m_bExpanded
  /\ ~HoldsNaN(rhs)
  /\ \E i \in 1..rhs.m_cDimensions : rhs.m_aDimensions[i].m_cDivisions > 0
  /\ IsEqual(tensor, rhs)

\* C20 as the specification words it: the copy of every reachable tensor is IsEqual
C20_AsStated ==
  (op = "CopyToFresh" /\ ~err) =>
    /\ IsEqual(tensor, rhs)
    /\ tensor.m_bExpanded = rhs.m_bExpanded

(***************************************************************************)
(* Add in either direction.                                                *)
(***************************************************************************)
\* B.Add(A) for the A.Add(B) that was applied
ReverseAdd == Add(rhs, pre, 0)

\* both directions are within the caller contract of Add and succeed
BothDirections == AddSucceeded /\ AddContract(rhs, pre) /\ ~ReverseAdd.err

(* C21: when A.Add(B) and B.Add(A) both succeed, the two results have the  *)
(* same division sequence on every axis and the same meaningful scores,    *)
(* also when A and B share division points; IsEqual holds between them     *)
(* when no meaningful score of the result is NaN, and fails when one is.   *)
C21_AddCommutes ==
  BothDirections =>
    /\ SameContent(tensor, ReverseAdd.t)
    /\ IsEqual(tensor, ReverseAdd.t) <=> ~HoldsNaN(tensor)

\* two segmented tensors that share a division point, added in both directions
C21_Witness ==
  /\ BothDirections
  /\ \E i \in 1..pre.m_cDimensions :
       /\ DivisionSet(pre, i) \cap DivisionSet(rhs, i) # {}
       /\ DivisionSet(pre, i) # DivisionSet(rhs, i)
  /\ IsEqual(tensor, ReverseAdd.t)

\* C21 as the specification words it: IsEqual holds between the two results
C21_AsStated == BothDirections => IsEqual(tensor, ReverseAdd.t)

\* an Add of two expanded tensors that lie on the same bin grid
AddOnSameGrid ==
  /\ AddSucceeded
  /\ pre.m_bExpanded
  /\ rhs.m_bExpanded
  /\ \A i \in 1..pre.m_cDimensions : Divisions(pre, i) = Divisions(rhs, i)

(* C22: for A and B expanded onto the same bin grid, A.Add(B) leaves the   *)
(* divisions and every K_i of A as they were and makes every dense cell of *)
(* A the sum of the former cells of A and of B at the same place: the      *)
(* result of A.AddExpanded(B.values).                                      *)
C22_AddOfExpandedIsAddExpanded ==
  AddOnSameGrid =>
    /\ \A i \in 1..pre.m_cDimensions : Divisions(tensor, i) = Divisions(pre, i)
    /\ CountValues(tensor) = CountValues(pre)
    /\ \A j \in 1..CountValues(pre) :
         tensor.m_aValues[j] = Plus(pre.m_aValues[j], rhs.m_aValues[j])
    /\ Scores(tensor) = Scores(AddExpanded(pre, rhs.m_aValues))
    /\ tensor.m_bExpanded

\* two dense two-dimensional grids were added
C22_Witness ==
  /\ AddOnSameGrid
  /\ pre.m_cDimensions = MaxDims
  /\ CountValues(tensor) > MaxBins * pre.m_cVectorLength
  /\ \E j \in 1..CountValues(pre) : pre.m_aValues[j] # pre.m_aValues[1]

(***************************************************************************)
(* Expand of an expanded tensor.                                           *)
(***************************************************************************)
ExpandedAgain == op = "Expand" /\ pre.m_bExpanded

(* C23: Expand on a tensor whose expanded flag is set reports success and  *)
(* changes nothing: divisions, K_i, values, capacities and the flag are as *)
(* before, whatever bins are handed in.  The tensor is IsEqual to the      *)
(* first expansion when none of its meaningful scores is NaN, and is not   *)
(* when one is.                                                            *)
C23_ExpandTwiceChangesNothing ==
  ExpandedAgain =>
    /\ ~err
    /\ tensor = pre
    /\ IsEqual(tensor, pre) <=> ~HoldsNaN(pre)

\* a dense grid of several cells was handed to Expand again
C23_Witness ==
  /\ ExpandedAgain
  /\ tensor = pre
  /\ CountValues(pre) > pre.m_cVectorLength
  /\ IsEqual(tensor, pre)

\* C23 as the specification words it: the second expansion is IsEqual to the first
C23_AsStated ==
  ExpandedAgain =>
    /\ ~err
    /\ tensor = pre
    /\ IsEqual(tensor, pre)

(***************************************************************************)
(* Capacities.                                                             *)
(***************************************************************************)
\* the capacities of t are at least those of the tensor before the operation
CapacitiesKept(t) ==
  /\ t.m_cValueCapacity >= pre.m_cValueCapacity
  /\ \A i \in 1..pre.m_cDimensionsMax :
       t.m_aDimensions[i].m_cDivisionCapacity >= pre.m_aDimensions[i].m_cDivisionCapacity

(* C24: SetCountDivisions(i, K) on a capacity below K grows the capacity   *)
(* to K + K/2 and keeps the entries the buffer held; on a capacity of at   *)
(* least K it leaves capacity and buffer alone; on success K_i = K and     *)
(* nothing else changes.  When it reports failure (overflow or a failed    *)
(* reallocation) the tensor is exactly as before.  No operation, Reset     *)
(* included, lowers the values capacity or a division capacity.            *)
C24_SetCountDivisionsGrowth ==
  /\ op = "SetCountDivisions" =>
       LET was == Dim(pre, args[1])
           now == Dim(tensor, args[1])
       IN IF err THEN tensor = pre
          ELSE /\ now.m_cDivisions = args[2]
               /\ now.m_cDivisionCapacity =
                    IF was.m_cDivisionCapacity < args[2] THEN args[2] + (args[2] \div 2)
                    ELSE was.m_cDivisionCapacity
               /\ Len(now.m_aDivisions) = now.m_cDivisionCapacity
               /\ \A j \in 1..was.m_cDivisionCapacity :
                    now.m_aDivisions[j] = was.m_aDivisions[j]
               /\ tensor = SetDim(pre, args[1], now)
  /\ (op # "Allocate" /\ tensor # Nullptr) => CapacitiesKept(tensor)

\* the division buffer of an axis that held a division was grown
C24_Witness ==
  /\ op = "SetCountDivisions"
  /\ ~err
  /\ Dim(pre, args[1]).m_cDivisions >= 1
  /\ Dim(pre, args[1]).m_aDivisions[1] # Uninit
  /\ Dim(pre, args[1]).m_cDivisionCapacity < args[2]
  /\ Dim(tensor, args[1]).m_aDivisions[1] = Dim(pre, args[1]).m_aDivisions[1]

(***************************************************************************)
(* The scaling of the round update.                                        *)
(***************************************************************************)
\* the round update as the bag loop left it: the sum of the call's inner updates
UnscaledSum ==
  SumOfInner(Reset(SetCountDimensions(call.shell.m_pTermUpdate, CallTerm.cDimensions)), 1)

\* the call scaled its round update and MultiplyAndCheckForIssues returned bBad
ScaledWith(bBad) ==
  /\ Called
  /\ \E i \in Steps : IsStep(i, "MultiplyAndCheckForIssues") /\ call.trace[i].arg = bBad

\* a meaningful score of the sum, multiplied by v, is NaN or infinite
ScalingPoisons(v) ==
  \E j \in 1..CountValues(UnscaledSum) : Times(UnscaledSum.m_aValues[j], v) \in {NonFinite, NaN}

ExpandWalk ==
  ExpandCursors(pre, ExpandStack(pre, args),
                pre.m_cVectorLength * CountSegments(pre, pre.m_cDimensions),
                pre.m_cVectorLength * CountNewValues(args, pre.m_cDimensions))

\* the cursors of the fill of the last Add, taken from its two operands
AddWalk ==
  AddCursors(pre, rhs, AddStack(pre, rhs),
             pre.m_cVectorLength * CountSegments(pre, pre.m_cDimensions),
             pre.m_cVectorLength * CountSegments(rhs, pre.m_cDimensions),
             pre.m_cVectorLength * AddCountNewValues(AddStack(pre, rhs), pre.m_cDimensions))

\* the fill of the last operation ran to its end
ExpandFilled == ExpandSucceeded
AddFilled == AddSucceeded /\ pre.m_cDimensions >= 1

\* no write of the walk lands below an old score that this or a later step reads
WritesAboveReads(walk) ==
  \A s \in 1..Len(walk) : \A later \in s..Len(walk) :
     walk[later].pValue1 <= walk[s].pValueTop

\* the walk reads a row of old segments again: the read cursor goes back up
RereadsRow(walk) ==
  \E s \in 1..(Len(walk) - 1) : walk[s + 1].pValue1 > walk[s].pValue1

\* C26: in the reverse fill of Expand and of Add, the vector written at a
\* step never lies below a vector of this tensor's old scores that is read at
\* that step or at any later one, rows that are read again included
C26_FillNeverClobbers ==
  /\ ExpandFilled => WritesAboveReads(ExpandWalk)
  /\ AddFilled => WritesAboveReads(AddWalk)

\* an Add whose walk reads a row of this tensor again because only the
\* operand moved on an outer axis, and that grew the grid
C26_Witness ==
  /\ AddFilled
  /\ RereadsRow(AddWalk)
  /\ Len(AddWalk) > CountSegments(pre, pre.m_cDimensions)

(***************************************************************************)
(* The divisions of an expanded tensor                                     *)
(***************************************************************************)
\* the divisions 0, 1, ..., cBins - 2 of a dense axis of cBins bins
DenseDivisions(cBins) == [j \in 1..(cBins - 1) |-> j - 1]

\* axis i of the tensor is dense over the bins the last Expand was given
DenseAxis(i) ==
  /\ tensor.m_aDimensions[i].m_cDivisions = args[i] - 1
  /\ Divisions(tensor, i) = DenseDivisions(args[i])

\* axis i had as many divisions as the dense grid before the last Expand, so
\* the divisions loop left it alone
SkippedAxis(i) ==
  pre.m_aDimensions[i].m_cDivisions = args[i] - 1

\* C27: after a successful Expand of a non-expanded tensor every active axis
\* has bins - 1 divisions 0, 1, ..., bins - 2 and the tensor is expanded,
\* the axes whose divisions the code did not rewrite included
C27_ExpandedIsDense ==
  ExpandSucceeded =>
    /\ tensor.m_bExpanded
    /\ \A i \in 1..tensor.m_cDimensions : DenseAxis(i)

\* an Expand that skipped a divided axis and rewrote another one
C27_Witness ==
  /\ ExpandSucceeded
  /\ \E i, j \in 1..tensor.m_cDimensions :
       /\ SkippedAxis(i)
       /\ pre.m_aDimensions[i].m_cDivisions >= 1
       /\ ~SkippedAxis(j)

(***************************************************************************)
(* No growth after Expand                                                  *)
(***************************************************************************)
\* the last operation was an Add, an AddExpanded or a Multiply on a tensor
\* that was expanded
OnExpanded == op \in {"Add", "AddExpanded", "Multiply"} /\ pre.m_bExpanded

\* the last operation left every K_i and every capacity of the tensor as it
\* was, and asked for no more divisions or scores than the tensor held: the
\* assertions of SetCountDivisions and EnsureValueCapacity hold
NothingGrew ==
  /\ tensor.m_cValueCapacity = pre.m_cValueCapacity
  /\ CountValues(tensor) <= pre.m_cValueCapacity
  /\ \A i \in 1..pre.m_cDimensionsMax :
       /\ tensor.m_aDimensions[i].m_cDivisionCapacity = pre.m_aDimensions[i].m_cDivisionCapacity
       /\ tensor.m_aDimensions[i].m_cDivisions = pre.m_aDimensions[i].m_cDivisions

\* the last operation cleared the expanded flag of the tensor
FlagCleared ==
  /\ nOps > 0
  /\ op # "CopyToFresh"
  /\ pre.m_bExpanded
  /\ ~tensor.m_bExpanded

(* C28: an Add with an operand on the same bin grid, an AddExpanded or a   *)
(* Multiply on an expanded tensor succeeds without raising a K_i, a        *)
(* division capacity or the values capacity; Add leaves the expanded flag  *)
(* as it was; the flag is cleared by Reset and by a Copy of a tensor that  *)
(* is not expanded, and by nothing else.                                   *)
C28_NoGrowthAfterExpand ==
  /\ OnExpanded => ~err /\ NothingGrew /\ tensor.m_bExpanded
  /\ op = "Add" => tensor.m_bExpanded = pre.m_bExpanded
  /\ FlagCleared => op = "Reset" \/ (op = "Copy" /\ ~rhs.m_bExpanded)
  /\ op = "Reset" => ~tensor.m_bExpanded

\* an expanded grid of several cells took an Add of an operand with fewer
\* divisions after an earlier operation on the expanded tensor
C28_Witness ==
  /\ OnExpanded
  /\ op = "Add"
  /\ nOps = MaxOps
  /\ pre.m_cDimensions >= 1
  /\ ~rhs.m_bExpanded
  /\ CountValues(rhs) < CountValues(pre)
  /\ NothingGrew

\* C28 as the specification words it: only Reset clears the expanded flag
C28_AsStated ==
  /\ OnExpanded => ~err /\ NothingGrew /\ tensor.m_bExpanded
  /\ op = "Add" => tensor.m_bExpanded = pre.m_bExpanded
  /\ FlagCleared => op = "Reset"

(***************************************************************************)
(* The gain reported through avgGainOut                                    *)
(***************************************************************************)
\* the call was handed a place for the gain
GainAsked == Called /\ call.p.bAvgGainOut

\* a gain that is a number: not NaN, not infinite, not negative
FiniteGain(g) == 0 <= g /\ g <= DoubleMax

\* every inner bag of the call went through BoostZeroDimensional
ZeroDimensionalCall ==
  /\ \E i \in Steps : IsStep(i, "BoostZeroDimensional")
  /\ \A i \in Steps : IsPath(i) => IsStep(i, "BoostZeroDimensional")

(* C29: a call that was handed avgGainOut leaves the illegal-gain sentinel *)
(* there when it returns an error; when it returns None it leaves the      *)
(* sentinel or a finite gain >= 0, the sentinel exactly when the summed    *)
(* gain overflowed or the scaled update was poisoned; a call whose bags    *)
(* all took the zero-dimensional path leaves 0, or the sentinel when the   *)
(* update was poisoned.                                                    *)
C29_ReportedGain ==
  GainAsked =>
    /\ call.error # Error_None => call.avgGainOut = k_illegalGainDouble
    /\ call.error = Error_None =>
         /\ call.avgGainOut = k_illegalGainDouble \/ FiniteGain(call.avgGainOut)
         /\ call.avgGainOut = k_illegalGainDouble <=> (GainOverflowed \/ Poisoned)
    /\ (call.error = Error_None /\ ZeroDimensionalCall) =>
         call.avgGainOut = (IF Poisoned THEN k_illegalGainDouble ELSE 0)

\* the gains of the inner bags overflowed in the sum while the update stayed
\* finite: the call returns None with the sentinel
C29_Witness ==
  /\ GainAsked
  /\ call.error = Error_None
  /\ GainOverflowed
  /\ ~Poisoned
  /\ call.avgGainOut = k_illegalGainDouble

(***************************************************************************)
(* The reverse merge of the divisions                                      *)
(***************************************************************************)
\* the number of divisions the last Add gave axis i (zero-based)
NewDivisions(i) == At(AddStack(pre, rhs), i).m_cNewDivisions

\* the passes of the reverse merge of axis i (zero-based) in the last Add,
\* on the buffer that SetCountDivisions handed to the loop
MergeWalk(i) ==
  MergeCursors(Dim(SetCountDivisions(pre, i, NewDivisions(i), 0).t, i).m_aDivisions,
               Dim(rhs, i).m_aDivisions,
               Dim(pre, i).m_cDivisions,
               Dim(rhs, i).m_cDivisions,
               NewDivisions(i))

\* the divisions loop of the last Add ran over every axis
Merged == AddSucceeded /\ pre.m_cDimensions >= 1

MergedAxes == 0..(pre.m_cDimensions - 1)

\* pass c of a merge to cNew divisions stays inside the arrays: a division is
\* read only at an index >= 0 of its operand and written only into [0, cNew)
InsideArrays(c, cNew, cDivisions2) ==
  /\ c.branch # "stray"
  /\ c.p1Cur <= c.pTopCur
  /\ c.p2Cur <= c.pTopCur
  /\ c.pTopCur <= cNew
  /\ c.branch = "merge" => c.p1Cur >= 1 /\ c.p2Cur >= 1 /\ c.pTopCur >= 1
  /\ c.branch = "memcpy" => c.pTopCur >= 1 /\ c.pTopCur <= cDivisions2

\* pass c ends the loop where a cursor has run out: with this tensor's old
\* divisions used up the slots left are as many as the divisions of rhs left
\* and, when there are any, the direct copy is taken; with the divisions of
\* rhs used up the write cursor is this tensor's read cursor and the loop stops
StopsInTime(c) ==
  /\ c.p1Cur = 0 => c.pTopCur = c.p2Cur
  /\ (c.p1Cur = 0 /\ c.p2Cur > 0) => c.branch = "memcpy"
  /\ c.p2Cur = 0 => c.pTopCur = c.p1Cur /\ c.branch = "break"

\* C30: in the reverse merge of every axis of an Add no pass reads a
\* division at index -1 of either operand or writes outside [0, newK): a pass
\* that finds this tensor's old divisions used up takes the direct copy, and
\* a pass that finds the divisions of rhs used up stops the loop
C30_MergeStaysInside ==
  Merged =>
    \A i \in MergedAxes : \A s \in 1..Len(MergeWalk(i)) :
      /\ InsideArrays(MergeWalk(i)[s], NewDivisions(i), Dim(rhs, i).m_cDivisions)
      /\ StopsInTime(MergeWalk(i)[s])

\* an Add in which one axis wrote merged divisions and then copied the rest
\* from rhs because this tensor's divisions were used up, and another axis
\* stopped with the divisions of rhs used up
C30_Witness ==
  /\ Merged
  /\ \E i, j \in MergedAxes :
       /\ Len(MergeWalk(i)) >= 2
       /\ MergeWalk(i)[Len(MergeWalk(i))].branch = "memcpy"
       /\ MergeWalk(i)[Len(MergeWalk(i))].p1Cur = 0
       /\ Len(MergeWalk(j)) >= 2
       /\ MergeWalk(j)[Len(MergeWalk(j))].branch = "break"
       /\ MergeWalk(j)[Len(MergeWalk(j))].p2Cur = 0

====
